---- MODULE Spec2Model ----
(***************************************************************************)
(* A model of tracker-rs: the in-memory peer registry (PeerStore), the     *)
(* announce handler, the rate limiter, the known-entity caches and the     *)
(* write-ahead log of admin mutations.                                     *)
(***************************************************************************)
EXTENDS Integers, Sequences, FiniteSets, TLC

----------------------------------------------------------------------------
(* Bounds of the model *)

\* timestamps given to the registry operations range over 0..MaxTime
MaxTime == 1
\* the runs explored keep every counter in -MaxDrift..MaxDrift + 1
MaxDrift == 1
\* the runs explored hold at most MaxAnnounces announce requests
MaxAnnounces == 2
\* the clock advances MaxTicks times, by TickStep seconds each time
MaxTicks == 1
TickStep == 60
\* configuration: performance.max_requests_per_minute (at least 1) and
\* performance.peer_timeout
MaxRequestsPerMinute == 1
PeerTimeout == 30
\* configuration: performance.min_announce_interval and the anti_cheat
\* thresholds max_ips_per_user, max_upload_speed (bytes per second),
\* max_ratio and min_seeder_upload
MinAnnounceInterval == 30
MaxIpsPerUser == 1
MaxUploadSpeed == 10
MaxRatio == 2
MinSeederUpload == 1
\* the announces answered when the checks are explored
MaxCheckedAnnounces == 3
\* the rate limiter called alone: at most MaxCalls calls counted per bucket,
\* the clock advancing by HalfWindow seconds up to MaxClock
MaxCalls == 3
HalfWindow == 30
MaxClock == 120
\* the admin handlers called alone: the log holds at most MaxLog lines
MaxLog == 2
MaxQueryAnnounces == 3
MaxWalLines == 2
MaxEndpointLog == 1

(* Program constants *)

\* the length of a rate-limit window, in seconds
RateWindow == 60
\* the largest numwant validate accepts
MaxNumwant == 200

(* The values requests and arguments are drawn from *)

InfoHashes == {"h1"}
PeerIds == {"pA", "pB"}
IPs == {"10.0.0.1", "10.0.0.2"}
Lefts == {0, 1000}
Times == 0..MaxTime

\* the user the registry operations are called for when called directly
StoreUsers == {7}

\* the torrent id the peers of a swarm carry
TorrentIdOf(info_hash) == 1

----------------------------------------------------------------------------
(* Partial maps (DashMap) *)

EmptyMap == [x \in {} |-> 0]

Put(f, k, v) == [x \in (DOMAIN f) \cup {k} |-> IF x = k THEN v ELSE f[x]]

Del(f, k) == [x \in (DOMAIN f) \ {k} |-> f[x]]

----------------------------------------------------------------------------
(* models/peer.rs *)

Peer_new(user_id, torrent_id, peer_id, ip, uploaded, downloaded, left, last_announce) ==
    [user_id |-> user_id, torrent_id |-> torrent_id, peer_id |-> peer_id,
     ip |-> ip, uploaded |-> uploaded, downloaded |-> downloaded, left |-> left,
     last_announce |-> last_announce, is_seeder |-> (left = 0)]

----------------------------------------------------------------------------
(* stores/peer_store.rs: the store is the triple of maps of PeerStore *)

PeerStore_new == [peers |-> EmptyMap, stats |-> EmptyMap, user_ips |-> EmptyMap]

TorrentStats_new == [seeders |-> 0, leechers |-> 0]

\* AtomicU32::fetch_add(1) and fetch_sub(1) wrap modulo 2^32.  A counter value
\* v is held as its 32-bit two's complement reading: v itself below 2^31 and
\* v - 2^32 from there on, so that 0 - 1 is -1, which stands for 2^32 - 1.
fetch_add(v) == IF v = 2147483647 THEN -2147483647 - 1 ELSE v + 1

fetch_sub(v) == IF v = -2147483647 - 1 THEN 2147483647 ELSE v - 1

\* user_ips.entry(key).or_insert_with(DashSet::new).insert(ip)
user_ips_insert(user_ips, key, ip) ==
    Put(user_ips, key,
        (IF key \in DOMAIN user_ips THEN user_ips[key] ELSE {}) \cup {ip})

\* the `if let Some(user_ips) = self.user_ips.get(..)` block of remove_peer
\* and of cleanup_stale_peers
user_ips_remove(user_ips, key, ip) ==
    IF key \in DOMAIN user_ips
    THEN IF user_ips[key] \ {ip} = {}
         THEN Del(user_ips, key)
         ELSE Put(user_ips, key, user_ips[key] \ {ip})
    ELSE user_ips

\* the counter a peer with this seeder flag is counted in, decremented
stats_dec(s, is_seeder) ==
    IF is_seeder THEN [s EXCEPT !.seeders = fetch_sub(@)]
                 ELSE [s EXCEPT !.leechers = fetch_sub(@)]

stats_inc(s, is_seeder) ==
    IF is_seeder THEN [s EXCEPT !.seeders = fetch_add(@)]
                 ELSE [s EXCEPT !.leechers = fetch_add(@)]

\* add_peer counting the peer whether its id is new or not
add_peer_always_counting(st, info_hash, peer) ==
    LET peers1 == IF info_hash \in DOMAIN st.peers THEN st.peers
                  ELSE Put(st.peers, info_hash, EmptyMap)
        stats1 == IF info_hash \in DOMAIN st.stats THEN st.stats
                  ELSE Put(st.stats, info_hash, TorrentStats_new)
    IN  [ok |-> TRUE,
         store |-> [peers |-> Put(peers1, info_hash,
                                  Put(peers1[info_hash], peer.peer_id, peer)),
                    stats |-> Put(stats1, info_hash,
                                  stats_inc(stats1[info_hash], peer.is_seeder)),
                    user_ips |-> user_ips_insert(st.user_ips,
                                     <<peer.user_id, peer.torrent_id>>, peer.ip)]]

add_peer(st, info_hash, peer) ==
    LET peers1 == IF info_hash \in DOMAIN st.peers THEN st.peers
                  ELSE Put(st.peers, info_hash, EmptyMap)
        stats1 == IF info_hash \in DOMAIN st.stats THEN st.stats
                  ELSE Put(st.stats, info_hash, TorrentStats_new)
        uips1  == user_ips_insert(st.user_ips, <<peer.user_id, peer.torrent_id>>, peer.ip)
        is_new == peer.peer_id \notin DOMAIN peers1[info_hash]
        stats2 == IF is_new
                  THEN Put(stats1, info_hash, stats_inc(stats1[info_hash], peer.is_seeder))
                  ELSE stats1
        peers2 == Put(peers1, info_hash, Put(peers1[info_hash], peer.peer_id, peer))
    IN  [ok |-> TRUE, store |-> [peers |-> peers2, stats |-> stats2, user_ips |-> uips1]]

\* update_peer creating the swarm it does not find
update_peer_creating_swarm(st, info_hash, peer_id, peer) ==
    LET peers1 == IF info_hash \in DOMAIN st.peers THEN st.peers
                  ELSE Put(st.peers, info_hash, EmptyMap)
        stats1 == IF info_hash \in DOMAIN st.stats THEN st.stats
                  ELSE Put(st.stats, info_hash, TorrentStats_new)
        peer_map == peers1[info_hash]
        s0     == stats1[info_hash]
        s1     == IF peer_id \in DOMAIN peer_map
                     /\ peer_map[peer_id].is_seeder # peer.is_seeder
                  THEN IF peer.is_seeder
                       THEN [seeders |-> fetch_add(s0.seeders), leechers |-> fetch_sub(s0.leechers)]
                       ELSE [seeders |-> fetch_sub(s0.seeders), leechers |-> fetch_add(s0.leechers)]
                  ELSE s0
    IN  [ok |-> TRUE,
         store |-> [peers |-> Put(peers1, info_hash, Put(peer_map, peer_id, peer)),
                    stats |-> Put(stats1, info_hash, s1),
                    user_ips |-> user_ips_insert(st.user_ips,
                                     <<peer.user_id, peer.torrent_id>>, peer.ip)]]

update_peer(st, info_hash, peer_id, peer) ==
    IF info_hash \notin DOMAIN st.peers THEN [ok |-> FALSE, store |-> st]
    ELSE IF info_hash \notin DOMAIN st.stats THEN [ok |-> FALSE, store |-> st]
    ELSE
    LET peer_map == st.peers[info_hash]
        uips1  == user_ips_insert(st.user_ips, <<peer.user_id, peer.torrent_id>>, peer.ip)
        s0     == st.stats[info_hash]
        s1     == IF peer_id \in DOMAIN peer_map
                     /\ peer_map[peer_id].is_seeder # peer.is_seeder
                  THEN IF peer.is_seeder
                       THEN [seeders |-> fetch_add(s0.seeders), leechers |-> fetch_sub(s0.leechers)]
                       ELSE [seeders |-> fetch_sub(s0.seeders), leechers |-> fetch_add(s0.leechers)]
                  ELSE s0
    IN  [ok |-> TRUE,
         store |-> [peers |-> Put(st.peers, info_hash, Put(peer_map, peer_id, peer)),
                    stats |-> Put(st.stats, info_hash, s1),
                    user_ips |-> uips1]]

\* remove_peer counting a leecher out even when the peer id is not stored
remove_peer_always_counting(st, info_hash, peer_id) ==
    IF info_hash \notin DOMAIN st.peers THEN [ok |-> FALSE, store |-> st]
    ELSE IF info_hash \notin DOMAIN st.stats THEN [ok |-> FALSE, store |-> st]
    ELSE
    LET peer_map == st.peers[info_hash]
        is_seeder == peer_id \in DOMAIN peer_map /\ peer_map[peer_id].is_seeder
        index == IF peer_id \in DOMAIN peer_map
                 THEN user_ips_remove(st.user_ips,
                          <<peer_map[peer_id].user_id, peer_map[peer_id].torrent_id>>,
                          peer_map[peer_id].ip)
                 ELSE st.user_ips
    IN  [ok |-> TRUE,
         store |-> [peers |-> Put(st.peers, info_hash, Del(peer_map, peer_id)),
                    stats |-> Put(st.stats, info_hash,
                                  stats_dec(st.stats[info_hash], is_seeder)),
                    user_ips |-> index]]

\* remove_peer without the maintenance of the user-IP index
remove_peer_keeping_index(st, info_hash, peer_id) ==
    IF info_hash \notin DOMAIN st.peers THEN [ok |-> FALSE, store |-> st]
    ELSE IF info_hash \notin DOMAIN st.stats THEN [ok |-> FALSE, store |-> st]
    ELSE
    LET peer_map == st.peers[info_hash]
    IN  IF peer_id \in DOMAIN peer_map
        THEN [ok |-> TRUE,
              store |-> [peers |-> Put(st.peers, info_hash, Del(peer_map, peer_id)),
                         stats |-> Put(st.stats, info_hash,
                                       stats_dec(st.stats[info_hash],
                                                 peer_map[peer_id].is_seeder)),
                         user_ips |-> st.user_ips]]
        ELSE [ok |-> TRUE, store |-> st]

remove_peer(st, info_hash, peer_id) ==
    IF info_hash \notin DOMAIN st.peers THEN [ok |-> FALSE, store |-> st]
    ELSE IF info_hash \notin DOMAIN st.stats THEN [ok |-> FALSE, store |-> st]
    ELSE
    LET peer_map == st.peers[info_hash]
    IN  IF peer_id \in DOMAIN peer_map
        THEN LET peer == peer_map[peer_id]
             IN [ok |-> TRUE,
                 store |-> [peers |-> Put(st.peers, info_hash, Del(peer_map, peer_id)),
                            stats |-> Put(st.stats, info_hash,
                                          stats_dec(st.stats[info_hash], peer.is_seeder)),
                            user_ips |-> user_ips_remove(st.user_ips,
                                             <<peer.user_id, peer.torrent_id>>, peer.ip)]]
        ELSE [ok |-> TRUE, store |-> st]

\* get_peers without the filter on the excluded peer id
get_peers_unfiltered(st, info_hash, num_want, exclude_peer_id) ==
    IF info_hash \notin DOMAIN st.peers THEN {EmptyMap}
    ELSE LET peer_map == st.peers[info_hash]
             n        == IF num_want < Cardinality(DOMAIN peer_map) THEN num_want
                         ELSE Cardinality(DOMAIN peer_map)
         IN  {[k \in K |-> peer_map[k]] :
                 K \in {K \in SUBSET DOMAIN peer_map : Cardinality(K) = n}}

\* get_peers without the truncation to num_want
get_peers_untruncated(st, info_hash, num_want, exclude_peer_id) ==
    IF info_hash \notin DOMAIN st.peers THEN {EmptyMap}
    ELSE LET peer_map == st.peers[info_hash]
             others   == {k \in DOMAIN peer_map : k # exclude_peer_id}
         IN  {[k \in others |-> peer_map[k]]}

\* The possible results of get_peers: the shuffle makes every choice of
\* min(num_want, n) of the n other entries possible.  A result is the part
\* of the peer map that is returned.
get_peers(st, info_hash, num_want, exclude_peer_id) ==
    IF info_hash \notin DOMAIN st.peers THEN {EmptyMap}
    ELSE LET peer_map == st.peers[info_hash]
             others   == {k \in DOMAIN peer_map : k # exclude_peer_id}
             n        == IF num_want < Cardinality(others) THEN num_want
                         ELSE Cardinality(others)
         IN  {[k \in K |-> peer_map[k]] : K \in {K \in SUBSET others : Cardinality(K) = n}}

get_stats(st, info_hash) ==
    IF info_hash \in DOMAIN st.stats
    THEN <<st.stats[info_hash].seeders, st.stats[info_hash].leechers>>
    ELSE <<0, 0>>

get_user_ip_count(st, user_id, torrent_id) ==
    IF <<user_id, torrent_id>> \in DOMAIN st.user_ips
    THEN Cardinality(st.user_ips[<<user_id, torrent_id>>])
    ELSE 0

\* the body of `for (peer_id, peer) in stale_peers` of cleanup_stale_peers,
\* over the stale entries of one swarm
RECURSIVE remove_stale(_, _, _, _)
remove_stale(st, info_hash, stale, snapshot) ==
    IF stale = {} THEN st
    ELSE LET peer_id == CHOOSE k \in stale : TRUE
             peer    == snapshot[peer_id]
             st1     == [peers |-> Put(st.peers, info_hash, Del(st.peers[info_hash], peer_id)),
                         stats |-> Put(st.stats, info_hash,
                                       stats_dec(st.stats[info_hash], peer.is_seeder)),
                         user_ips |-> user_ips_remove(st.user_ips,
                                          <<peer.user_id, peer.torrent_id>>, peer.ip)]
         IN  remove_stale(st1, info_hash, stale \ {peer_id}, snapshot)

\* stale_peers taking a peer that is exactly timeout old as stale
stale_peers_at_timeout(peer_map, timeout, current_time) ==
    {k \in DOMAIN peer_map : current_time - peer_map[k].last_announce >= timeout}

stale_peers_reversed(peer_map, timeout, current_time) ==
    {k \in DOMAIN peer_map : peer_map[k].last_announce - current_time > timeout}

stale_peers(peer_map, timeout, current_time) ==
    {k \in DOMAIN peer_map : current_time - peer_map[k].last_announce > timeout}

RECURSIVE cleanup_swarms(_, _, _, _)
cleanup_swarms(st, swarms, timeout, current_time) ==
    IF swarms = {} THEN [removed |-> 0, store |-> st]
    ELSE LET info_hash == CHOOSE h \in swarms : TRUE
             stale == IF info_hash \in DOMAIN st.stats
                      THEN stale_peers(st.peers[info_hash], timeout, current_time)
                      ELSE {}
             st1   == remove_stale(st, info_hash, stale, st.peers[info_hash])
             rest  == cleanup_swarms(st1, swarms \ {info_hash}, timeout, current_time)
         IN  [removed |-> Cardinality(stale) + rest.removed, store |-> rest.store]

cleanup_stale_peers(st, timeout, current_time) ==
    cleanup_swarms(st, DOMAIN st.peers, timeout, current_time)

----------------------------------------------------------------------------
(* security/rate_limiter.rs *)

\* check_and_increment with a window that is over only after more than
\* RateWindow seconds
check_and_increment_late_reset(reqs, ip, current_time) ==
    LET entry == IF ip \in DOMAIN reqs THEN reqs[ip]
                 ELSE [count |-> 0, window_start |-> current_time]
    IN  IF current_time - entry.window_start > RateWindow
        THEN [allowed |-> TRUE,
              requests |-> Put(reqs, ip, [count |-> 1, window_start |-> current_time])]
        ELSE [allowed |-> entry.count + 1 <= MaxRequestsPerMinute,
              requests |-> Put(reqs, ip, [entry EXCEPT !.count = @ + 1])]

\* requests: ip -> [count, window_start]
check_and_increment(reqs, ip, current_time) ==
    LET entry == IF ip \in DOMAIN reqs THEN reqs[ip]
                 ELSE [count |-> 0, window_start |-> current_time]
    IN  IF current_time - entry.window_start >= RateWindow
        THEN [allowed |-> TRUE,
              requests |-> Put(reqs, ip, [count |-> 1, window_start |-> current_time])]
        ELSE [allowed |-> entry.count + 1 <= MaxRequestsPerMinute,
              requests |-> Put(reqs, ip, [entry EXCEPT !.count = @ + 1])]

\* a sweep that evicts the windows that are half over
cleanup_old_entries_early(reqs, current_time) ==
    [ip \in {i \in DOMAIN reqs : 2 * (current_time - reqs[i].window_start) < RateWindow}
        |-> reqs[ip]]

\* self.requests.retain(|_, (_, window_start)| current_time - window_start < 60)
cleanup_old_entries(reqs, current_time) ==
    [ip \in {i \in DOMAIN reqs : current_time - reqs[i].window_start < RateWindow}
        |-> reqs[ip]]

----------------------------------------------------------------------------
(* security/ip_blacklist.rs, security/client_blacklist.rs *)

ip_is_banned(blacklist, ip) == ip \in blacklist

\* the substrings of the user agents of the model: a user agent is a product
\* name followed by a version
Substrings(user_agent) ==
    CASE user_agent = "qBittorrent/4.5" -> {"qBittorrent/4.5", "qBittorrent", "4.5"}
      [] user_agent = "FakeClient/1.0"  -> {"FakeClient/1.0", "FakeClient", "1.0"}
      [] OTHER -> {user_agent}

client_is_banned(blacklist, user_agent) ==
    \E entry \in blacklist : entry \in Substrings(user_agent)

----------------------------------------------------------------------------
(* validation/params.rs *)

\* texts that parse as an IP address
ParsableIPs == IPs \cup {"6.6.6.6"}
\* passkeys of 32 ASCII alphanumeric characters
WellFormedPasskeys == {"pk7", "pk8", "pk9", "pkX"}
\* values that percent-decode to exactly 20 bytes
WellFormedHashes == {"h1", "h2", "h3"}
WellFormedPeerIds == PeerIds \cup {"pC"}
BLACKLISTED_PORTS == {8080, 8081, 1214, 3389, 4662, 6346, 6347, 6699}
Events == {"started", "stopped", "completed"}

\* name.eq_ignore_ascii_case("want-digest"), for the header names of the model
ascii_lowercase(name) ==
    CASE name \in {"Want-Digest", "WANT-DIGEST", "want-digest"} -> "want-digest"
      [] name \in {"Accept-Encoding", "accept-encoding"} -> "accept-encoding"
      [] OTHER -> name

has_suspicious_headers(headers) ==
    \E name \in headers : ascii_lowercase(name) = "want-digest"

validate_port(port) == port # 0 /\ port \notin BLACKLISTED_PORTS

validate(req) ==
    /\ req.passkey \in WellFormedPasskeys
    /\ req.info_hash \in WellFormedHashes
    /\ req.peer_id \in WellFormedPeerIds
    /\ validate_port(req.port)
    /\ req.numwant <= MaxNumwant
    /\ req.event \in Events \cup {""}
    /\ req.ip \in ParsableIPs \cup {"absent"}

----------------------------------------------------------------------------
(* State *)

VARIABLES
    peers,            \* PeerStore.peers: info_hash -> (peer_id -> Peer)
    stats,            \* PeerStore.stats: info_hash -> TorrentStats
    user_ips,         \* PeerStore.user_ips: (user_id, torrent_id) -> set of IPs
    torrent_cache,    \* TorrentCache.torrents: info_hash -> Torrent
    user_cache,       \* UserCache.users: passkey -> User
    ip_blacklist,     \* IpBlacklist: the banned addresses
    client_blacklist, \* ClientBlacklist.clients: the banned substrings
    requests,         \* RateLimiter.requests: ip -> (count, window_start)
    metrics,          \* Metrics: the four announce counters
    wal,              \* the lines of the log file of Wal
    now,              \* the system clock, in seconds
    last_op,          \* the operation just performed and what it returned
    last_req,         \* the announce request just answered
    window,           \* per IP, the window its calls are counted in (history)
    tasks             \* the calls in flight on concurrent tasks: task -> call

vars == <<peers, stats, user_ips, torrent_cache, user_cache, ip_blacklist,
          client_blacklist, requests, metrics, wal, now, last_op, last_req, window, tasks>>

registry == <<peers, stats, user_ips>>

Store == [peers |-> peers, stats |-> stats, user_ips |-> user_ips]

\* the cap on the counters, which the code lets drift without limit
WithinDrift(st) ==
    \A h \in DOMAIN st.stats :
        /\ st.stats[h].seeders \in -MaxDrift..MaxDrift + 1
        /\ st.stats[h].leechers \in -MaxDrift..MaxDrift + 1

SetStore(st) ==
    /\ WithinDrift(st)
    /\ peers' = st.peers
    /\ stats' = st.stats
    /\ user_ips' = st.user_ips

Metrics_new ==
    [total_announces |-> 0, successful_announces |-> 0,
     failed_announces |-> 0, blocked_requests |-> 0]

\* AppState::new: empty stores, the blacklists of the configuration
InitEmpty ==
    /\ peers = EmptyMap
    /\ stats = EmptyMap
    /\ user_ips = EmptyMap
    /\ torrent_cache = EmptyMap
    /\ user_cache = EmptyMap
    /\ ip_blacklist = {}
    /\ client_blacklist = {}
    /\ requests = EmptyMap
    /\ metrics = Metrics_new
    /\ wal = <<>>
    /\ now = 0
    /\ last_op = [op |-> "new"]
    /\ last_req = [query |-> "new"]
    /\ window = EmptyMap
    /\ tasks = EmptyMap

----------------------------------------------------------------------------
(* anti_cheat/*.rs: each check gives the set of the violations it reports,
   returned as Err(..) or only written to the log *)

\* last_announce is the set of at most one time of the existing peer
check_announce_interval(last_announce, current_time, min_interval) ==
    {"announce-interval-too-short" : t \in {t \in last_announce : current_time - t < min_interval}}

check_duplicate_peer(st, user_id, torrent_id, max_ips) ==
    IF get_user_ip_count(st, user_id, torrent_id) > max_ips THEN {"too-many-ips"} ELSE {}

\* new.saturating_sub(old)
saturating_sub(new, old) == IF new > old THEN new - old ELSE 0

\* delta / elapsed > max_speed, for elapsed > 0
check_speed(old_uploaded, new_uploaded, old_downloaded, new_downloaded, elapsed, max_speed) ==
    IF elapsed <= 0 THEN {}
    ELSE (IF saturating_sub(new_uploaded, old_uploaded) > max_speed * elapsed
          THEN {"suspicious-upload-speed"} ELSE {})
         \cup
         (IF saturating_sub(new_downloaded, old_downloaded) > max_speed * elapsed
          THEN {"suspicious-download-speed"} ELSE {})

\* uploaded / downloaded > max_ratio, for downloaded > 0
check_ratio(uploaded, downloaded, max_ratio) ==
    IF downloaded = 0 THEN {}
    ELSE IF uploaded > max_ratio * downloaded THEN {"suspicious-ratio"} ELSE {}

check_ghost_seeder(is_seeder, uploaded, min_upload, is_completed_event) ==
    IF ~is_seeder THEN {}
    ELSE IF is_completed_event THEN {}
    ELSE IF uploaded < min_upload THEN {"ghost-seeder"} ELSE {}

----------------------------------------------------------------------------
(* handlers/announce.rs *)

increment(m, counter) == [m EXCEPT ![counter] = @ + 1]

\* a return of Err(..) that counts nothing
Rejected_uncounted(class, counter, m, reqs) ==
    {[class |-> class, store |-> Store, requests |-> reqs, metrics |-> m,
      peers |-> EmptyMap, stats |-> <<0, 0>>, log |-> {}]}

\* a return of Err(..) from announce_handler after the named counter was
\* incremented; reqs is the rate limiter's map at that point
Rejected(class, counter, m, reqs) ==
    {[class |-> class, store |-> Store, requests |-> reqs,
      metrics |-> increment(m, counter), peers |-> EmptyMap, stats |-> <<0, 0>>,
      log |-> {}]}

\* the response built from the peer list and get_stats, after the checks
\* wrote log
Accepted(st, info_hash, m, reqs, peer_list, log) ==
    [class |-> "ok", store |-> st, requests |-> reqs,
     metrics |-> increment(m, "successful_announces"), peers |-> peer_list,
     stats |-> get_stats(st, info_hash), log |-> log]

\* let ip = validated.ip.unwrap_or(addr.ip())
\* the source address taken from the socket whatever the request says
resolved_ip_socket(req) == req.addr

\* let ip = validated.ip.unwrap_or(addr.ip())
resolved_ip(req) == IF req.ip # "absent" THEN req.ip ELSE req.addr

\* state.peer_store.get_peers(info_hash, 1, peer_id).into_iter()
\*     .find(|p| p.user_id == user.id): the possible values, as sets of at
\* most one peer
existing_peer(st, info_hash, peer_id, user) ==
    {{pick[k] : k \in {k \in DOMAIN pick : pick[k].user_id = user.id}} :
        pick \in get_peers(st, info_hash, 1, peer_id)}

\* the five anti-cheat checks of the handler: what they report for a
\* request, given the existing peer found (a set of at most one peer)
anti_cheat(req, user, torrent, existing) ==
    check_announce_interval({p.last_announce : p \in existing}, now, MinAnnounceInterval)
    \cup check_duplicate_peer(Store, user.id, torrent.id, MaxIpsPerUser)
    \cup UNION {check_speed(p.uploaded, req.uploaded, p.downloaded, req.downloaded,
                            now - p.last_announce, MaxUploadSpeed) : p \in existing}
    \cup check_ratio(req.uploaded, req.downloaded, MaxRatio)
    \cup check_ghost_seeder(req.left = 0, req.uploaded, MinSeederUpload,
                            req.event = "completed")

\* the handler after the checks, refusing the announce when a check
\* reported a violation
announce_event_enforcing(req, user, torrent, ip, m, reqs, existing, log) ==
    IF log # {}
    THEN {[class |-> CHOOSE v \in log : TRUE, store |-> Store, requests |-> reqs,
           metrics |-> increment(m, "blocked_requests"), peers |-> EmptyMap,
           stats |-> <<0, 0>>, log |-> log]}
    ELSE
    IF req.event = "stopped"
    THEN {Accepted(remove_peer(Store, req.info_hash, req.peer_id).store, req.info_hash,
                   m, reqs, EmptyMap, log)}
    ELSE
        LET peer == Peer_new(user.id, torrent.id, req.peer_id, ip, req.uploaded,
                             req.downloaded, req.left, now)
            r    == IF existing # {}
                    THEN update_peer(Store, req.info_hash, req.peer_id, peer)
                    ELSE add_peer(Store, req.info_hash, peer)
        IN  IF ~r.ok
            THEN {[class |-> "internal-error", store |-> r.store, requests |-> reqs,
                   metrics |-> increment(m, "failed_announces"), peers |-> EmptyMap,
                   stats |-> <<0, 0>>, log |-> log]}
            ELSE {Accepted(r.store, req.info_hash, m, reqs, peer_list, log) :
                    peer_list \in get_peers(r.store, req.info_hash, req.numwant, req.peer_id)}

\* the handler after the checks, with what they reported: `match
\* validated.event`, the registry call and the response
announce_event(req, user, torrent, ip, m, reqs, existing, log) ==
    IF req.event = "stopped"
    THEN {Accepted(remove_peer(Store, req.info_hash, req.peer_id).store, req.info_hash,
                   m, reqs, EmptyMap, log)}
    ELSE
        LET peer == Peer_new(user.id, torrent.id, req.peer_id, ip, req.uploaded,
                             req.downloaded, req.left, now)
            r    == IF existing # {}
                    THEN update_peer(Store, req.info_hash, req.peer_id, peer)
                    ELSE add_peer(Store, req.info_hash, peer)
        IN  IF ~r.ok
            THEN {[class |-> "internal-error", store |-> r.store, requests |-> reqs,
                   metrics |-> increment(m, "failed_announces"), peers |-> EmptyMap,
                   stats |-> <<0, 0>>, log |-> log]}
            ELSE {Accepted(r.store, req.info_hash, m, reqs, peer_list, log) :
                    peer_list \in get_peers(r.store, req.info_hash, req.numwant, req.peer_id)}

\* the handler from the lookup of the existing peer on
announce_registry(req, user, torrent, ip, m, reqs) ==
    UNION {announce_event(req, user, torrent, ip, m, reqs, existing,
                          anti_cheat(req, user, torrent, existing))
        : existing \in existing_peer(Store, req.info_hash, req.peer_id, user)}

\* the rate-limit check made after the registry was changed
rate_limit_after_registry(req, user, torrent, ip, m) ==
    LET rl == check_and_increment(requests, ip, now)
    IN  IF ~rl.allowed
        THEN {[o EXCEPT !.class = "rate-limit-exceeded",
                        !.metrics = increment(m, "blocked_requests"),
                        !.peers = EmptyMap, !.stats = <<0, 0>>, !.log = {}] :
                 o \in announce_registry(req, user, torrent, ip, m, rl.requests)}
        ELSE announce_registry(req, user, torrent, ip, m, rl.requests)

\* the rate-limit check and, when it passes, the rest of the handler
rate_limit_gate(req, user, torrent, ip, m) ==
    LET rl == check_and_increment(requests, ip, now)
    IN  IF ~rl.allowed
        THEN Rejected("rate-limit-exceeded", "blocked_requests", m, rl.requests)
        ELSE announce_registry(req, user, torrent, ip, m, rl.requests)

\* the blacklist checks with the client checked before the address
blacklist_gates_client_first(req, user, torrent, ip, m) ==
    IF client_is_banned(client_blacklist, req.user_agent)
    THEN Rejected("client-banned", "blocked_requests", m, requests)
    ELSE IF ip_is_banned(ip_blacklist, ip)
    THEN Rejected("ip-banned", "blocked_requests", m, requests)
    ELSE rate_limit_gate(req, user, torrent, ip, m)

\* the blacklist checks with the announce of a banned address counted by the
\* rate limiter
blacklist_gates_counted(req, user, torrent, ip, m) ==
    IF ip_is_banned(ip_blacklist, ip)
    THEN Rejected("ip-banned", "blocked_requests", m,
                  check_and_increment(requests, ip, now).requests)
    ELSE IF client_is_banned(client_blacklist, req.user_agent)
    THEN Rejected("client-banned", "blocked_requests", m, requests)
    ELSE rate_limit_gate(req, user, torrent, ip, m)

\* the two blacklist checks, then the rate limiter
blacklist_gates(req, user, torrent, ip, m) ==
    IF ip_is_banned(ip_blacklist, ip)
    THEN Rejected("ip-banned", "blocked_requests", m, requests)
    ELSE IF client_is_banned(client_blacklist, req.user_agent)
    THEN Rejected("client-banned", "blocked_requests", m, requests)
    ELSE rate_limit_gate(req, user, torrent, ip, m)

\* the possible outcomes of one announce request: the response class, the
\* peer list of the response and the state the request leaves
announce_handler(req) ==
    IF req.query = "none"
    THEN Rejected("browser-access", "failed_announces", metrics, requests)
    ELSE IF req.passkey # "" /\ req.info_hash = "" /\ req.peer_id = ""
    THEN Rejected("browser-access", "failed_announces", metrics, requests)
    ELSE
    LET m == increment(metrics, "total_announces")
        ip == resolved_ip(req)
    IN  IF has_suspicious_headers(req.headers)
        THEN Rejected("suspicious-client", "blocked_requests", m, requests)
        ELSE IF ~validate(req)
        THEN Rejected("invalid-parameter", "failed_announces", m, requests)
        ELSE IF req.passkey \notin DOMAIN user_cache
        THEN Rejected("invalid-passkey", "failed_announces", m, requests)
        ELSE IF ~user_cache[req.passkey].is_active
        THEN Rejected("user-disabled", "failed_announces", m, requests)
        ELSE IF req.info_hash \notin DOMAIN torrent_cache
        THEN Rejected("torrent-not-found", "failed_announces", m, requests)
        ELSE IF ~torrent_cache[req.info_hash].is_active
        THEN Rejected("torrent-inactive", "failed_announces", m, requests)
        ELSE blacklist_gates(req, user_cache[req.passkey], torrent_cache[req.info_hash],
                             ip, m)

\* the requests answered so far, as the counters tell
Answered ==
    metrics.successful_announces + metrics.failed_announces + metrics.blocked_requests

\* one request answered by the handler
Handle(req) ==
    /\ \E o \in announce_handler(req) :
        /\ SetStore(o.store)
        /\ requests' = o.requests
        /\ metrics' = o.metrics
        /\ last_op' = [op |-> "announce", class |-> o.class, info_hash |-> req.info_hash,
                       peer_id |-> req.peer_id, event |-> req.event, left |-> req.left,
                       compact |-> (req.compact = 1), peers |-> o.peers,
                       stats |-> o.stats, log |-> o.log]
    /\ UNCHANGED <<torrent_cache, user_cache, ip_blacklist, client_blacklist, wal, now,
                   window, tasks>>

Announce(req) == Answered < MaxAnnounces /\ Handle(req)

\* the reaper task of main.rs: cleanup_stale_peers(peer_timeout) at the
\* current time
Reap ==
    LET r == cleanup_stale_peers(Store, PeerTimeout, now)
    IN  /\ last_op.op # "reap"
        /\ SetStore(r.store)
        /\ last_op' = [op |-> "reap", removed |-> r.removed]
        /\ UNCHANGED <<torrent_cache, user_cache, ip_blacklist, client_blacklist,
                       requests, metrics, wal, now, last_req, window, tasks>>

\* time passes
Tick ==
    /\ now + TickStep <= MaxTicks * TickStep
    /\ now' = now + TickStep
    /\ last_op' = [op |-> "tick"]
    /\ UNCHANGED <<registry, torrent_cache, user_cache, ip_blacklist, client_blacklist,
                   requests, metrics, wal, last_req, window, tasks>>

----------------------------------------------------------------------------
(* The tracker serving announces.  Startup has filled the caches from the  *)
(* log and the external API and the blacklists from the configuration.     *)

BannedIP == "6.6.6.6"

InitServing ==
    /\ peers = EmptyMap
    /\ stats = EmptyMap
    /\ user_ips = EmptyMap
    /\ torrent_cache = [h \in {"h1"} |-> [id |-> 1, is_freeleech |-> FALSE, is_active |-> TRUE]]
    /\ user_cache = [k \in {"pk7", "pk8", "pk9"} |->
                        CASE k = "pk7" -> [id |-> 7, class |-> 1, is_active |-> TRUE]
                          [] k = "pk8" -> [id |-> 8, class |-> 1, is_active |-> TRUE]
                          [] k = "pk9" -> [id |-> 9, class |-> 1, is_active |-> FALSE]]
    /\ ip_blacklist = {BannedIP}
    /\ client_blacklist = {"FakeClient"}
    /\ requests = EmptyMap
    /\ metrics = Metrics_new
    /\ wal = <<>>
    /\ now = 0
    /\ last_op = [op |-> "new"]
    /\ last_req = [query |-> "new"]
    /\ window = EmptyMap
    /\ tasks = EmptyMap

\* a well-formed announce of a torrent client
Request(passkey, peer_id, event, left, addr, numwant, compact) ==
    [query |-> "some", passkey |-> passkey, info_hash |-> "h1", peer_id |-> peer_id,
     port |-> 6881, uploaded |-> 0, downloaded |-> 0, left |-> left, event |-> event,
     numwant |-> numwant,
     compact |-> compact, ip |-> "absent", addr |-> addr, headers |-> {"Accept-Encoding"},
     user_agent |-> "qBittorrent/4.5"]

SwarmRequests ==
    {Request(k, p, e, l, a, n, c) :
        k \in {"pk7", "pk8"}, p \in PeerIds, e \in Events \cup {""}, l \in Lefts,
        a \in IPs, n \in {50}, c \in {0, 1}}

\* requests that fail one check each
DefectRequests ==
    LET r == Request("pk7", "pA", "", 1000, "10.0.0.1", 50, 1)
    IN  {[r EXCEPT !.query = "none"],
         [r EXCEPT !.info_hash = "", !.peer_id = ""],
         [r EXCEPT !.headers = {"Accept-Encoding", "Want-Digest"}],
         [r EXCEPT !.port = 0],
         [r EXCEPT !.passkey = "pkX"],
         [r EXCEPT !.passkey = "pk9"],
         [r EXCEPT !.info_hash = "h2"],
         [r EXCEPT !.addr = BannedIP],
         [r EXCEPT !.user_agent = "FakeClient/1.0"]}

AnnounceSwarm ==
    \E req \in SwarmRequests \cup DefectRequests : Announce(req) /\ UNCHANGED last_req

Next == AnnounceSwarm \/ Reap \/ Tick

Spec == InitServing /\ [][Next]_vars

----------------------------------------------------------------------------
(* The reaper with its scheduling.  spawn_cleanup_task runs                *)
(* `loop { interval.tick().await; cleanup_stale_peers(peer_timeout) }` on  *)
(* the runtime, with no break and no return, so a pass that can run does   *)
(* run, and the clock read by current_timestamp() advances.                *)

\* announces of one user's clients, each client at its own address
ReaperRequests ==
    {Request("pk7", p, e, l, IF p = "pA" THEN "10.0.0.1" ELSE "10.0.0.2", 50, 1) :
        p \in PeerIds, e \in {"", "stopped"}, l \in Lefts}

AnnounceReaper ==
    \E req \in ReaperRequests : Announce(req) /\ UNCHANGED last_req

NextReaper == AnnounceReaper \/ Reap \/ Tick

SpecReaper == InitServing /\ [][NextReaper]_vars /\ WF_vars(Reap) /\ WF_vars(Tick)

----------------------------------------------------------------------------
(* The gates of the announce handler: requests with up to two defects *)

Defects ==
    {"none", "no-query", "passkey-only", "want-digest", "bad-port", "unknown-passkey",
     "disabled-user", "unknown-torrent", "banned-ip", "banned-client"}

Defect(r, d) ==
    CASE d = "no-query"        -> [r EXCEPT !.query = "none"]
      [] d = "passkey-only"    -> [r EXCEPT !.info_hash = "", !.peer_id = ""]
      [] d = "want-digest"     -> [r EXCEPT !.headers = {"Accept-Encoding", "WANT-DIGEST"}]
      [] d = "bad-port"        -> [r EXCEPT !.port = 8080]
      [] d = "unknown-passkey" -> [r EXCEPT !.passkey = "pkX"]
      [] d = "disabled-user"   -> [r EXCEPT !.passkey = "pk9"]
      [] d = "unknown-torrent" -> [r EXCEPT !.info_hash = "h2"]
      [] d = "banned-ip"       -> [r EXCEPT !.ip = BannedIP]
      [] d = "banned-client"   -> [r EXCEPT !.user_agent = "FakeClient/1.0"]
      [] OTHER -> r

GateRequests ==
    {Defect(Defect(Request("pk7", "pA", "", 1000, "10.0.0.1", 50, 1), d1), d2) :
        d1 \in Defects, d2 \in Defects}

AnnounceGates == \E req \in GateRequests : Announce(req) /\ last_req' = req

NextGates == AnnounceGates \/ Tick

SpecGates == InitServing /\ [][NextGates]_vars

\* the serving tracker with a torrent in the cache that is not active
InitInactive ==
    /\ peers = EmptyMap
    /\ stats = EmptyMap
    /\ user_ips = EmptyMap
    /\ torrent_cache = [h \in {"h1", "h3"} |->
                           [id |-> IF h = "h1" THEN 1 ELSE 2, is_freeleech |-> FALSE,
                            is_active |-> (h = "h1")]]
    /\ user_cache = [k \in {"pk7", "pk8", "pk9"} |->
                        CASE k = "pk7" -> [id |-> 7, class |-> 1, is_active |-> TRUE]
                          [] k = "pk8" -> [id |-> 8, class |-> 1, is_active |-> TRUE]
                          [] k = "pk9" -> [id |-> 9, class |-> 1, is_active |-> FALSE]]
    /\ ip_blacklist = {BannedIP}
    /\ client_blacklist = {"FakeClient"}
    /\ requests = EmptyMap
    /\ metrics = Metrics_new
    /\ wal = <<>>
    /\ now = 0
    /\ last_op = [op |-> "new"]
    /\ last_req = [query |-> "new"]
    /\ window = EmptyMap
    /\ tasks = EmptyMap

\* the requests of the gates, for the active and for the inactive torrent
RejectionRequests ==
    GateRequests \cup {[r EXCEPT !.info_hash = "h3"] : r \in GateRequests}

AnnounceRejections ==
    \E req \in RejectionRequests : Announce(req) /\ last_req' = req

NextRejections == AnnounceRejections \/ Tick

SpecRejections == InitInactive /\ [][NextRejections]_vars

----------------------------------------------------------------------------
(* The anti-cheat checks: announces of one user with transfer totals *)

AntiCheatRequests ==
    {[Request("pk7", p, e, l, a, 50, 1) EXCEPT !.uploaded = t[1], !.downloaded = t[2]] :
        p \in PeerIds, e \in {"", "completed"}, l \in Lefts, a \in IPs,
        t \in {<<0, 0>>, <<2000, 500>>}}

AnnounceChecked ==
    /\ Answered < MaxCheckedAnnounces
    /\ \E req \in AntiCheatRequests : Handle(req) /\ last_req' = req

NextAntiCheat == AnnounceChecked \/ Tick

SpecAntiCheat == InitServing /\ [][NextAntiCheat]_vars

----------------------------------------------------------------------------
(* The peer list of the response: announces of three peers of one user that *)
(* ask for none, one or the default number of peers                         *)

QueryNumwants == {0, 1, 50}

\* each peer announces from its own address
QueryRequests ==
    {Request("pk7", p, "", l, IF p = "pB" THEN "10.0.0.2" ELSE "10.0.0.1", n, 1) :
        p \in WellFormedPeerIds, l \in Lefts, n \in QueryNumwants}

AnnounceQuery ==
    /\ Answered < MaxQueryAnnounces
    /\ \E req \in QueryRequests : Handle(req) /\ last_req' = req

NextQuery == AnnounceQuery \/ Tick

SpecQuery == InitServing /\ [][NextQuery]_vars

----------------------------------------------------------------------------
(* Two users' clients announcing with peer ids of their choice *)

OwnerRequests ==
    {Request(k, p, e, l, IF k = "pk7" THEN "10.0.0.1" ELSE "10.0.0.2", 50, 1) :
        k \in {"pk7", "pk8"}, p \in PeerIds, e \in Events \cup {""}, l \in Lefts}

AnnounceOwners ==
    \E req \in OwnerRequests : Announce(req) /\ last_req' = req

NextOwners == AnnounceOwners \/ Tick

SpecOwners == InitServing /\ [][NextOwners]_vars

----------------------------------------------------------------------------
(* Announces with and without the `ip` parameter, from several sockets *)

SourceAddrs == IPs \cup {BannedIP}

SourceRequests ==
    {[Request("pk7", "pA", "", 1000, a, 50, 1) EXCEPT !.ip = i] :
        a \in SourceAddrs, i \in SourceAddrs \cup {"absent"}}

AnnounceSource ==
    \E req \in SourceRequests : Announce(req) /\ last_req' = req

NextSource == AnnounceSource \/ Tick

SpecSource == InitServing /\ [][NextSource]_vars

----------------------------------------------------------------------------
(* The rate limiter called one at a time *)

RateLimiterCall ==
    \E ip \in IPs :
        LET r == check_and_increment(requests, ip, now)
        IN  /\ ip \in DOMAIN requests => requests[ip].count < MaxCalls
            /\ requests' = r.requests
            /\ last_op' = [op |-> "check_and_increment", ip |-> ip, allowed |-> r.allowed]
            \* the window the claim counts this call in
            /\ window' = IF ip \in DOMAIN window /\ now - window[ip].start < RateWindow
                         THEN Put(window, ip, [window[ip] EXCEPT !.calls = @ + 1])
                         ELSE Put(window, ip, [start |-> now, calls |-> 1])
            /\ UNCHANGED <<registry, torrent_cache, user_cache, ip_blacklist,
                           client_blacklist, metrics, wal, now, last_req, tasks>>

RateLimiterTick ==
    /\ now + HalfWindow <= MaxClock
    /\ now' = now + HalfWindow
    /\ last_op' = [op |-> "tick"]
    /\ UNCHANGED <<registry, torrent_cache, user_cache, ip_blacklist, client_blacklist,
                   requests, metrics, wal, last_req, window, tasks>>

NextRateLimiter == RateLimiterCall \/ RateLimiterTick

SpecRateLimiter == InitEmpty /\ [][NextRateLimiter]_vars

----------------------------------------------------------------------------
(* The rate limiter with its sweep.  Every call is made on the limiter     *)
(* that is swept, `requests`, and on one that never is, `window`.          *)

SweepCall ==
    \E ip \in IPs :
        LET r == check_and_increment(requests, ip, now)
            u == check_and_increment(window, ip, now)
        IN  /\ ip \in DOMAIN window => window[ip].count < MaxCalls
            /\ requests' = r.requests
            /\ window' = u.requests
            /\ last_op' = [op |-> "check_and_increment", ip |-> ip, allowed |-> r.allowed,
                           unswept |-> u.allowed,
                           evicted |-> ip \in DOMAIN window /\ ip \notin DOMAIN requests]
            /\ UNCHANGED <<registry, torrent_cache, user_cache, ip_blacklist,
                           client_blacklist, metrics, wal, now, last_req, tasks>>

Sweep ==
    /\ last_op.op # "cleanup_old_entries"
    /\ requests' = cleanup_old_entries(requests, now)
    /\ last_op' = [op |-> "cleanup_old_entries", current_time |-> now]
    /\ UNCHANGED <<registry, torrent_cache, user_cache, ip_blacklist, client_blacklist,
                   metrics, wal, now, last_req, window, tasks>>

NextSweep == SweepCall \/ Sweep \/ RateLimiterTick

SpecSweep == InitEmpty /\ [][NextSweep]_vars

----------------------------------------------------------------------------
(* Concurrent tasks: the calls of tasks that run in parallel, one step of  *)
(* one task at a time.  A step is one access to a shared map or atomic.    *)

TaskIds == {"t1", "t2", "t3"}

\* the task's call has returned
Done(t) == tasks[t].pc = "done"

AllDone == tasks # EmptyMap /\ \A t \in DOMAIN tasks : Done(t)

\* one step of a task: its call moves to c
SetTask(t, c) == tasks' = [tasks EXCEPT ![t] = c]

\* the orders in which the calls of the tasks can be made one after another
Orders(ts) ==
    {o \in [1..Cardinality(ts) -> ts] : \A i, j \in 1..Cardinality(ts) : o[i] = o[j] => i = j}

----------------------------------------------------------------------------
(* security/rate_limiter.rs: check_and_increment called from parallel tasks *)

\* the guard of DashMap::entry taken as a shared guard: it excludes nobody
entry_guard_shared(t, ip) == TRUE

\* DashMap::entry returns a RefMut, an exclusive guard on the shard of the
\* key, which lives to the end of check_and_increment: the call waits while
\* another call holds the guard of the address
entry_guard(t, ip) ==
    \A u \in DOMAIN tasks \ {t} :
        ~(/\ tasks[u].op = "check_and_increment"
          /\ tasks[u].ip = ip
          /\ tasks[u].pc \notin {"entry", "done"})

\* self.requests.entry(ip).or_insert_with(|| (0, current_time))
rl_entry(t) ==
    LET c == tasks[t]
    IN  /\ c.op = "check_and_increment" /\ c.pc = "entry"
        /\ entry_guard(t, c.ip)
        /\ requests' = IF c.ip \in DOMAIN requests THEN requests
                       ELSE Put(requests, c.ip, [count |-> 0, window_start |-> c.current_time])
        /\ SetTask(t, [c EXCEPT !.pc = "load"])

\* window_start.load(), and the comparison with current_time
rl_load(t) ==
    LET c == tasks[t]
    IN  /\ c.op = "check_and_increment" /\ c.pc = "load"
        /\ SetTask(t, [c EXCEPT !.pc = IF c.current_time - requests[c.ip].window_start
                                            >= RateWindow
                                        THEN "store_window" ELSE "fetch_add"])
        /\ UNCHANGED requests

\* window_start.store(current_time)
rl_store_window(t) ==
    LET c == tasks[t]
    IN  /\ c.op = "check_and_increment" /\ c.pc = "store_window"
        /\ requests' = [requests EXCEPT ![c.ip].window_start = c.current_time]
        /\ SetTask(t, [c EXCEPT !.pc = "store_count"])

\* count.store(1); return true
rl_store_count(t) ==
    LET c == tasks[t]
    IN  /\ c.op = "check_and_increment" /\ c.pc = "store_count"
        /\ requests' = [requests EXCEPT ![c.ip].count = 1]
        /\ SetTask(t, [c EXCEPT !.pc = "done", !.result = TRUE])

\* count.fetch_add(1) + 1 <= max_requests_per_minute
rl_fetch_add(t) ==
    LET c == tasks[t]
    IN  /\ c.op = "check_and_increment" /\ c.pc = "fetch_add"
        /\ requests' = [requests EXCEPT ![c.ip].count = @ + 1]
        /\ SetTask(t, [c EXCEPT !.pc = "done",
                                !.result = (requests[c.ip].count + 1 <= MaxRequestsPerMinute)])

RaceUnchanged ==
    UNCHANGED <<registry, torrent_cache, user_cache, ip_blacklist, client_blacklist,
                metrics, wal, now, last_req, window>>

\* one step of one of the calls in flight
RateLimiterStep ==
    /\ \E t \in DOMAIN tasks :
          \/ rl_entry(t) \/ rl_load(t) \/ rl_store_window(t) \/ rl_store_count(t)
          \/ rl_fetch_add(t)
    /\ UNCHANGED last_op
    /\ RaceUnchanged

\* the handlers of requests that arrive together call the limiter for one
\* address, each with the time it read: the clock's or half a window later
RateLimiterSpawn ==
    /\ tasks = EmptyMap
    /\ \E ip \in IPs : \E times \in [TaskIds -> {now, now + HalfWindow}] :
          tasks' = [t \in TaskIds |->
                       [op |-> "check_and_increment", pc |-> "entry", ip |-> ip,
                        current_time |-> times[t], result |-> FALSE]]
    /\ last_op' = [op |-> "spawn", before |-> requests]
    /\ UNCHANGED requests
    /\ RaceUnchanged

\* calls made one at a time, then calls made together
NextRateLimiterRace ==
    \/ tasks = EmptyMap /\ RateLimiterCall
    \/ tasks = EmptyMap /\ RateLimiterTick
    \/ RateLimiterSpawn
    \/ RateLimiterStep

SpecRateLimiterRace == InitEmpty /\ [][NextRateLimiterRace]_vars

----------------------------------------------------------------------------
(* The registry operations called one at a time with arbitrary arguments *)

PeerArgs ==
    {Peer_new(u, TorrentIdOf(h), p, ip, 0, 0, l, t) :
        u \in StoreUsers, h \in InfoHashes, p \in PeerIds, ip \in IPs, l \in Lefts, t \in Times}

others == <<torrent_cache, user_cache, ip_blacklist, client_blacklist, requests, metrics,
            wal, now, last_req, window, tasks>>

AddPeer ==
    \E h \in InfoHashes, peer \in PeerArgs :
        LET r == add_peer(Store, h, peer)
        IN  /\ SetStore(r.store)
            /\ last_op' = [op |-> "add_peer", info_hash |-> h, peer_id |-> peer.peer_id,
                           ok |-> r.ok]
            /\ UNCHANGED others

UpdatePeer ==
    \E h \in InfoHashes, peer \in PeerArgs :
        LET r == update_peer(Store, h, peer.peer_id, peer)
        IN  /\ SetStore(r.store)
            /\ last_op' = [op |-> "update_peer", info_hash |-> h, peer_id |-> peer.peer_id,
                           ok |-> r.ok]
            /\ UNCHANGED others

RemovePeer ==
    \E h \in InfoHashes, p \in PeerIds :
        LET r == remove_peer(Store, h, p)
        IN  /\ SetStore(r.store)
            /\ last_op' = [op |-> "remove_peer", info_hash |-> h, peer_id |-> p, ok |-> r.ok]
            /\ UNCHANGED others

CleanupStalePeers ==
    \E timeout \in Times, current_time \in Times :
        LET r == cleanup_stale_peers(Store, timeout, current_time)
        IN  /\ SetStore(r.store)
            /\ last_op' = [op |-> "cleanup_stale_peers", timeout |-> timeout,
                           current_time |-> current_time, removed |-> r.removed]
            /\ UNCHANGED others

NextStore == AddPeer \/ UpdatePeer \/ RemovePeer \/ CleanupStalePeers

SpecStore == InitEmpty /\ [][NextStore]_vars

----------------------------------------------------------------------------
(* stores/peer_store.rs: the registry operations called from parallel      *)
(* tasks.  add_peer holds the RefMut of self.peers.entry, the exclusive     *)
(* guard of the swarm's shard; update_peer, remove_peer and the reaper hold *)
(* the Ref of self.peers.get or of the iterator, a shared guard.            *)

\* task u is inside the swarm: it holds a guard on the shard of info_hash
Inside(u, info_hash) ==
    /\ tasks[u].op \in {"update_peer", "remove_peer", "cleanup_stale_peers"}
    /\ tasks[u].info_hash = info_hash
    /\ tasks[u].pc \notin {"start", "done"}

\* task u holds the RefMut of self.user_ips.entry(key), from the entry call
\* of update_peer to its return
HoldsUserIps(u, key) ==
    /\ tasks[u].op = "update_peer"
    /\ tasks[u].pc \in {"old_peer", "insert"}
    /\ <<tasks[u].peer.user_id, tasks[u].peer.torrent_id>> = key

\* the guard of an index entry is free for task t
UserIpsFree(t, key) == \A u \in DOMAIN tasks \ {t} : ~HoldsUserIps(u, key)

StoreTask(op, info_hash, peer_id, peer) ==
    [op |-> op, pc |-> "start", info_hash |-> info_hash, peer_id |-> peer_id,
     peer |-> peer, ok |-> FALSE]

\* add_peer: the whole call under the exclusive guard of the swarm's shard
add_peer_call(t) ==
    LET c == tasks[t]
    IN  /\ c.op = "add_peer" /\ c.pc = "start"
        /\ \A u \in DOMAIN tasks \ {t} : ~Inside(u, c.info_hash)
        /\ peers' = add_peer(Store, c.info_hash, c.peer).store.peers
        /\ stats' = add_peer(Store, c.info_hash, c.peer).store.stats
        /\ user_ips' = add_peer(Store, c.info_hash, c.peer).store.user_ips
        /\ SetTask(t, [c EXCEPT !.pc = "done", !.ok = TRUE])

\* update_peer and remove_peer: self.peers.get and self.stats.get
store_get(t) ==
    LET c == tasks[t]
    IN  /\ c.op \in {"update_peer", "remove_peer"} /\ c.pc = "start"
        /\ SetTask(t, IF c.info_hash \notin DOMAIN peers \/ c.info_hash \notin DOMAIN stats
                      THEN [c EXCEPT !.pc = "done", !.ok = FALSE]
                      ELSE [c EXCEPT !.pc = IF c.op = "update_peer" THEN "user_ips"
                                            ELSE "remove"])
        /\ UNCHANGED registry

\* update_peer: self.user_ips.entry(..).or_insert_with(..); insert(peer.ip)
update_user_ips(t) ==
    LET c == tasks[t]
        key == <<c.peer.user_id, c.peer.torrent_id>>
    IN  /\ c.op = "update_peer" /\ c.pc = "user_ips"
        /\ UserIpsFree(t, key)
        /\ user_ips' = user_ips_insert(user_ips, key, c.peer.ip)
        /\ SetTask(t, [c EXCEPT !.pc = "old_peer"])
        /\ UNCHANGED <<peers, stats>>

\* update_peer: if let Some(old_peer) = peer_map.get(&peer_id) { .. }
update_old_peer(t) ==
    LET c == tasks[t]
        peer_map == peers[c.info_hash]
        s0 == stats[c.info_hash]
    IN  /\ c.op = "update_peer" /\ c.pc = "old_peer"
        /\ stats' = IF /\ c.peer_id \in DOMAIN peer_map
                       /\ peer_map[c.peer_id].is_seeder # c.peer.is_seeder
                    THEN Put(stats, c.info_hash,
                             IF c.peer.is_seeder
                             THEN [seeders |-> fetch_add(s0.seeders),
                                   leechers |-> fetch_sub(s0.leechers)]
                             ELSE [seeders |-> fetch_sub(s0.seeders),
                                   leechers |-> fetch_add(s0.leechers)])
                    ELSE stats
        /\ SetTask(t, [c EXCEPT !.pc = "insert"])
        /\ UNCHANGED <<peers, user_ips>>

\* update_peer: peer_map.insert(peer_id, peer); Ok(())
update_insert(t) ==
    LET c == tasks[t]
    IN  /\ c.op = "update_peer" /\ c.pc = "insert"
        /\ peers' = Put(peers, c.info_hash, Put(peers[c.info_hash], c.peer_id, c.peer))
        /\ SetTask(t, [c EXCEPT !.pc = "done", !.ok = TRUE])
        /\ UNCHANGED <<stats, user_ips>>

\* remove_peer: if let Some((_, peer)) = peer_map.remove(&peer_id), and the
\* fetch_sub on the counter of the removed peer's flag
remove_remove(t) ==
    LET c == tasks[t]
        peer_map == peers[c.info_hash]
    IN  /\ c.op = "remove_peer" /\ c.pc = "remove"
        /\ IF c.peer_id \in DOMAIN peer_map
           THEN /\ peers' = Put(peers, c.info_hash, Del(peer_map, c.peer_id))
                /\ stats' = Put(stats, c.info_hash,
                                stats_dec(stats[c.info_hash], peer_map[c.peer_id].is_seeder))
                /\ SetTask(t, [c EXCEPT !.pc = "user_ips", !.peer = peer_map[c.peer_id]])
           ELSE /\ UNCHANGED <<peers, stats>>
                /\ SetTask(t, [c EXCEPT !.pc = "done", !.ok = TRUE])
        /\ UNCHANGED user_ips

\* remove_peer and the reaper: if let Some(user_ips) = self.user_ips.get(..)
\* { user_ips.remove(&peer.ip); if user_ips.is_empty() { drop(user_ips); ..
\* The call goes to pc after when the set is not left empty.
index_remove_ip(t, after) ==
    LET c == tasks[t]
        key == <<c.peer.user_id, c.peer.torrent_id>>
    IN  /\ c.op \in {"remove_peer", "cleanup_stale_peers"} /\ c.pc = "user_ips"
        /\ UserIpsFree(t, key)
        /\ IF key \in DOMAIN user_ips
           THEN /\ user_ips' = Put(user_ips, key, user_ips[key] \ {c.peer.ip})
                /\ SetTask(t, IF user_ips[key] \ {c.peer.ip} = {}
                              THEN [c EXCEPT !.pc = "remove_entry"]
                              ELSE after)
           ELSE /\ UNCHANGED user_ips
                /\ SetTask(t, after)
        /\ UNCHANGED <<peers, stats>>

\* .. self.user_ips.remove(&(peer.user_id, peer.torrent_id)) } }
index_remove_entry(t, after) ==
    LET c == tasks[t]
        key == <<c.peer.user_id, c.peer.torrent_id>>
    IN  /\ c.op \in {"remove_peer", "cleanup_stale_peers"} /\ c.pc = "remove_entry"
        /\ UserIpsFree(t, key)
        /\ user_ips' = Del(user_ips, key)
        /\ SetTask(t, after)
        /\ UNCHANGED <<peers, stats>>

\* remove_peer after the index was handled: Ok(())
remove_user_ips(t) ==
    /\ tasks[t].op = "remove_peer"
    /\ \/ index_remove_ip(t, [tasks[t] EXCEPT !.pc = "done", !.ok = TRUE])
       \/ index_remove_entry(t, [tasks[t] EXCEPT !.pc = "done", !.ok = TRUE])

StoreRaceUnchanged ==
    UNCHANGED <<torrent_cache, user_cache, ip_blacklist, client_blacklist, requests,
                metrics, wal, now, last_req, window>>

\* one step of one of the registry calls in flight
StoreStep ==
    /\ \E t \in DOMAIN tasks :
          \/ add_peer_call(t) \/ store_get(t) \/ update_user_ips(t) \/ update_old_peer(t)
          \/ update_insert(t) \/ remove_remove(t) \/ remove_user_ips(t)
    /\ UNCHANGED last_op
    /\ StoreRaceUnchanged

\* the peer records of the calls made together: one peer id of one user
RaceArgs ==
    {Peer_new(7, TorrentIdOf("h1"), "pA", ip, 0, 0, l, now) : ip \in IPs, l \in Lefts}

\* the registry calls on one peer id of one swarm
StoreCalls ==
    {StoreTask("add_peer", "h1", "pA", peer) : peer \in RaceArgs}
    \cup {StoreTask("update_peer", "h1", "pA", peer) : peer \in RaceArgs}
    \cup {StoreTask("remove_peer", "h1", "pA", Peer_new(0, 0, "pA", "absent", 0, 0, 0, 0))}

\* a first peer is registered with nothing else running
StoreRegister ==
    /\ tasks = EmptyMap
    /\ peers = EmptyMap
    /\ \E peer \in RaceArgs :
          /\ SetStore(add_peer(Store, "h1", peer).store)
          /\ last_op' = [op |-> "add_peer", info_hash |-> "h1", peer_id |-> peer.peer_id,
                         ok |-> TRUE]
    /\ UNCHANGED tasks
    /\ StoreRaceUnchanged

\* two handlers call the registry at the same time
StoreSpawn ==
    /\ tasks = EmptyMap
    /\ \E calls \in [{"t1", "t2"} -> StoreCalls] : tasks' = calls
    /\ last_op' = [op |-> "spawn", before |-> Store]
    /\ UNCHANGED registry
    /\ StoreRaceUnchanged

NextStoreRace == StoreRegister \/ StoreSpawn \/ StoreStep

SpecStoreRace == InitEmpty /\ [][NextStoreRace]_vars

----------------------------------------------------------------------------
(* The reaper pass of cleanup_stale_peers running beside an announce *)

ReaperTask ==
    [op |-> "cleanup_stale_peers", pc |-> "start", info_hash |-> "none",
     peer_id |-> "none", peer |-> Peer_new(0, 0, "none", "absent", 0, 0, 0, 0),
     ok |-> FALSE, current_time |-> 0, swarms |-> {}, stale |-> EmptyMap, removed |-> 0]

\* let current_time = SystemTime::now(); for torrent_entry in self.peers.iter()
cleanup_start(t) ==
    LET c == tasks[t]
    IN  /\ c.op = "cleanup_stale_peers" /\ c.pc = "start"
        /\ SetTask(t, [c EXCEPT !.pc = "next", !.current_time = now,
                                !.swarms = DOMAIN peers])
        /\ UNCHANGED registry

\* the head of the loop over the swarms: the guard of the swarm is taken,
\* a swarm without counters is skipped, the stale peers are collected
cleanup_next(t) ==
    LET c == tasks[t]
    IN  /\ c.op = "cleanup_stale_peers" /\ c.pc = "next"
        /\ IF c.swarms = {}
           THEN SetTask(t, [c EXCEPT !.pc = "done", !.ok = TRUE])
           ELSE \E h \in c.swarms :
                  IF h \notin DOMAIN stats
                  THEN SetTask(t, [c EXCEPT !.swarms = @ \ {h}])
                  ELSE SetTask(t, [c EXCEPT
                          !.pc = "remove", !.info_hash = h,
                          !.stale = [k \in stale_peers(peers[h], PeerTimeout, c.current_time)
                                       |-> peers[h][k]]])
        /\ UNCHANGED registry

\* for (peer_id, peer) in stale_peers { peer_map.remove(&peer_id); fetch_sub
\* on the counter of the collected record's flag; .. }, and the end of the
\* swarm's turn, which releases its guard
cleanup_remove(t) ==
    LET c == tasks[t]
        h == c.info_hash
    IN  /\ c.op = "cleanup_stale_peers" /\ c.pc = "remove"
        /\ IF c.stale = EmptyMap
           THEN /\ SetTask(t, [c EXCEPT !.pc = "next", !.info_hash = "none",
                                        !.swarms = @ \ {h}])
                /\ UNCHANGED registry
           ELSE \E k \in DOMAIN c.stale :
                  /\ peers' = Put(peers, h, Del(peers[h], k))
                  /\ stats' = Put(stats, h, stats_dec(stats[h], c.stale[k].is_seeder))
                  /\ SetTask(t, [c EXCEPT !.pc = "user_ips", !.peer = c.stale[k],
                                          !.stale = Del(@, k), !.removed = @ + 1])
                  /\ UNCHANGED user_ips

\* the index maintenance for the peer just removed, then the next stale peer
cleanup_user_ips(t) ==
    /\ tasks[t].op = "cleanup_stale_peers"
    /\ \/ index_remove_ip(t, [tasks[t] EXCEPT !.pc = "remove"])
       \/ index_remove_entry(t, [tasks[t] EXCEPT !.pc = "remove"])

\* one step of the reaper pass or of the registry call of the announce
ReaperStep ==
    /\ \E t \in DOMAIN tasks :
          \/ cleanup_start(t) \/ cleanup_next(t) \/ cleanup_remove(t) \/ cleanup_user_ips(t)
          \/ add_peer_call(t) \/ store_get(t) \/ update_user_ips(t) \/ update_old_peer(t)
          \/ update_insert(t) \/ remove_remove(t) \/ remove_user_ips(t)
    /\ UNCHANGED last_op
    /\ StoreRaceUnchanged

\* the peer an announce of user pk7 registers
AnnouncedPeer(peer_id, left) ==
    Peer_new(user_cache["pk7"].id, torrent_cache["h1"].id, peer_id,
             IF peer_id = "pA" THEN "10.0.0.1" ELSE "10.0.0.2", 0, 0, left, now)

\* an announce answered with nothing else running registers a peer
ReaperRegister ==
    /\ tasks = EmptyMap
    /\ \E p \in PeerIds, l \in Lefts :
          /\ "h1" \in DOMAIN peers => p \notin DOMAIN peers["h1"]
          /\ SetStore(add_peer(Store, "h1", AnnouncedPeer(p, l)).store)
          /\ last_op' = [op |-> "add_peer", info_hash |-> "h1", peer_id |-> p, ok |-> TRUE]
    /\ UNCHANGED tasks
    /\ StoreRaceUnchanged

ReaperTick == tasks = EmptyMap /\ Tick

\* the reaper's interval fires while an announce of user pk7 is handled: the
\* handler has looked up the existing peer and calls the registry
ReaperSpawn ==
    /\ tasks = EmptyMap
    /\ \E p \in PeerIds, l \in Lefts, e \in {"", "stopped"} :
        \E existing \in existing_peer(Store, "h1", p, user_cache["pk7"]) :
          tasks' = [t \in {"reaper", "announce"} |->
                      IF t = "reaper" THEN ReaperTask
                      ELSE StoreTask(IF e = "stopped" THEN "remove_peer"
                                     ELSE IF existing # {} THEN "update_peer"
                                     ELSE "add_peer",
                                     "h1", p, AnnouncedPeer(p, l))]
    /\ last_op' = [op |-> "spawn", before |-> Store]
    /\ UNCHANGED registry
    /\ StoreRaceUnchanged

NextReaperRace == ReaperRegister \/ ReaperTick \/ ReaperSpawn \/ ReaperStep

SpecReaperRace == InitServing /\ [][NextReaperRace]_vars

----------------------------------------------------------------------------
(* stores/peer_store.rs: the shard guards of the three maps.  Every call   *)
(* takes the guard of a map's shard with the access that returns it (entry, *)
(* get, the iterator's next) and keeps it until the binding goes out of    *)
(* scope.  All keys are taken to lie in one shard of their map, which is    *)
(* the case of most contention: no call holds two guards of one map.  The   *)
(* guards of the inner maps (a swarm's peer map, a user's address set) are  *)
(* taken and released within one access.                                    *)

\* the guards of the calls with an add_peer that lets go of the swarm's guard
\* once the swarm entry exists
Guards_entry_released(c) ==
    CASE c.op = "add_peer" ->
            (CASE c.pc = "stats"    -> {}
               [] c.pc = "user_ips" -> {<<"stats", "w">>}
               [] c.pc = "insert"   -> {<<"stats", "w">>, <<"user_ips", "w">>}
               [] OTHER -> {})
      [] c.op = "update_peer" ->
            (CASE c.pc = "stats"    -> {<<"peers", "r">>}
               [] c.pc = "user_ips" -> {<<"peers", "r">>, <<"stats", "r">>}
               [] c.pc \in {"old_peer", "insert"} ->
                    {<<"peers", "r">>, <<"stats", "r">>, <<"user_ips", "w">>}
               [] OTHER -> {})
      [] c.op \in {"remove_peer", "cleanup_stale_peers"} ->
            (CASE c.pc = "stats" -> {<<"peers", "r">>}
               [] c.pc \in {"remove", "user_ips", "remove_entry"} ->
                    {<<"peers", "r">>, <<"stats", "r">>}
               [] OTHER -> {})
      [] c.op = "get_peers" -> IF c.pc = "iter" THEN {<<"peers", "r">>} ELSE {}
      [] OTHER -> {}

\* the guards of the calls with remove_peer and the reaper keeping the Ref of
\* self.user_ips.get while they call self.user_ips.remove
Guards_ref_kept(c) ==
    CASE c.op = "add_peer" ->
            (CASE c.pc = "stats"    -> {<<"peers", "w">>}
               [] c.pc = "user_ips" -> {<<"peers", "w">>, <<"stats", "w">>}
               [] c.pc = "insert"   ->
                    {<<"peers", "w">>, <<"stats", "w">>, <<"user_ips", "w">>}
               [] OTHER -> {})
      [] c.op = "update_peer" ->
            (CASE c.pc = "stats"    -> {<<"peers", "r">>}
               [] c.pc = "user_ips" -> {<<"peers", "r">>, <<"stats", "r">>}
               [] c.pc \in {"old_peer", "insert"} ->
                    {<<"peers", "r">>, <<"stats", "r">>, <<"user_ips", "w">>}
               [] OTHER -> {})
      [] c.op \in {"remove_peer", "cleanup_stale_peers"} ->
            (CASE c.pc = "stats" -> {<<"peers", "r">>}
               [] c.pc \in {"remove", "user_ips"} ->
                    {<<"peers", "r">>, <<"stats", "r">>}
               [] c.pc = "remove_entry" ->
                    {<<"peers", "r">>, <<"stats", "r">>, <<"user_ips", "r">>}
               [] OTHER -> {})
      [] c.op = "get_peers" -> IF c.pc = "iter" THEN {<<"peers", "r">>} ELSE {}
      [] OTHER -> {}

\* the guards the call holds at its position, as <<map, mode>>: add_peer the
\* RefMut of its three entry calls; update_peer the Ref of peers.get and of
\* stats.get and the RefMut of user_ips.entry; remove_peer and the reaper
\* the Ref of the swarm and of the counters (the Ref of user_ips.get is
\* dropped before user_ips.remove); get_peers the Ref of the swarm
Guards(c) ==
    CASE c.op = "add_peer" ->
            (CASE c.pc = "stats"    -> {<<"peers", "w">>}
               [] c.pc = "user_ips" -> {<<"peers", "w">>, <<"stats", "w">>}
               [] c.pc = "insert"   ->
                    {<<"peers", "w">>, <<"stats", "w">>, <<"user_ips", "w">>}
               [] OTHER -> {})
      [] c.op = "update_peer" ->
            (CASE c.pc = "stats"    -> {<<"peers", "r">>}
               [] c.pc = "user_ips" -> {<<"peers", "r">>, <<"stats", "r">>}
               [] c.pc \in {"old_peer", "insert"} ->
                    {<<"peers", "r">>, <<"stats", "r">>, <<"user_ips", "w">>}
               [] OTHER -> {})
      [] c.op \in {"remove_peer", "cleanup_stale_peers"} ->
            (CASE c.pc = "stats" -> {<<"peers", "r">>}
               [] c.pc \in {"remove", "user_ips", "remove_entry"} ->
                    {<<"peers", "r">>, <<"stats", "r">>}
               [] OTHER -> {})
      [] c.op = "get_peers" -> IF c.pc = "iter" THEN {<<"peers", "r">>} ELSE {}
      [] OTHER -> {}

NoGuard == <<"none", "r">>

\* the guard the next access of the call takes
Acquires(c) ==
    CASE c.pc = "start" ->
            (CASE c.op = "add_peer" -> <<"peers", "w">>
               [] c.op \in {"update_peer", "remove_peer", "get_peers"} -> <<"peers", "r">>
               [] c.op = "get_stats" -> <<"stats", "r">>
               [] c.op = "get_user_ip_count" -> <<"user_ips", "r">>
               [] OTHER -> NoGuard)
      [] c.pc = "next" -> <<"peers", "r">>
      [] c.pc = "stats" -> IF c.op = "add_peer" THEN <<"stats", "w">> ELSE <<"stats", "r">>
      [] c.pc = "user_ips" ->
            IF c.op \in {"add_peer", "update_peer"} THEN <<"user_ips", "w">>
            ELSE <<"user_ips", "r">>
      [] c.pc = "remove_entry" -> <<"user_ips", "w">>
      [] OTHER -> NoGuard

\* the lock of the shard lets the task's next access in: an exclusive guard
\* when no guard of the map is held, a shared guard when no exclusive one is
Granted(t) ==
    LET a == Acquires(tasks[t])
    IN  a = NoGuard \/
        \A u \in DOMAIN tasks : \A g \in Guards(tasks[u]) :
            g[1] = a[1] => g[2] = "r" /\ a[2] = "r"

\* the call with the error of a failed lookup noted
NotFound(c, err) ==
    [f \in DOMAIN c \cup {"err"} |-> IF f = "err" THEN err ELSE c[f]]

\* add_peer, one entry call or the rest of the call per step
lock_add_peer(t) ==
    LET c == tasks[t]
        h == c.info_hash
        key == <<c.peer.user_id, c.peer.torrent_id>>
    IN  /\ c.op = "add_peer"
        /\ \/ /\ c.pc = "start"
              /\ peers' = IF h \in DOMAIN peers THEN peers ELSE Put(peers, h, EmptyMap)
              /\ UNCHANGED <<stats, user_ips>>
              /\ SetTask(t, [c EXCEPT !.pc = "stats"])
           \/ /\ c.pc = "stats"
              /\ stats' = IF h \in DOMAIN stats THEN stats
                          ELSE Put(stats, h, TorrentStats_new)
              /\ UNCHANGED <<peers, user_ips>>
              /\ SetTask(t, [c EXCEPT !.pc = "user_ips"])
           \/ /\ c.pc = "user_ips"
              /\ user_ips' = user_ips_insert(user_ips, key, c.peer.ip)
              /\ UNCHANGED <<peers, stats>>
              /\ SetTask(t, [c EXCEPT !.pc = "insert"])
           \/ /\ c.pc = "insert"
              /\ peers' = add_peer(Store, h, c.peer).store.peers
              /\ stats' = add_peer(Store, h, c.peer).store.stats
              /\ UNCHANGED user_ips
              /\ SetTask(t, [c EXCEPT !.pc = "done", !.ok = TRUE])

\* self.peers.get(&info_hash) of update_peer, remove_peer and get_peers, and
\* the next entry of the reaper's iterator
lock_get_swarm(t) ==
    LET c == tasks[t]
    IN  /\ UNCHANGED registry
        /\ \/ /\ c.op \in {"update_peer", "remove_peer"} /\ c.pc = "start"
              /\ SetTask(t, IF c.info_hash \in DOMAIN peers
                            THEN [c EXCEPT !.pc = "stats"]
                            ELSE NotFound([c EXCEPT !.pc = "done", !.ok = FALSE],
                                          "Torrent not found"))
           \/ /\ c.op = "get_peers" /\ c.pc = "start"
              /\ SetTask(t, IF c.info_hash \in DOMAIN peers
                            THEN [c EXCEPT !.pc = "iter"]
                            ELSE [c EXCEPT !.pc = "done", !.ok = TRUE])
           \/ /\ c.op = "cleanup_stale_peers" /\ c.pc = "next"
              /\ IF c.swarms = {}
                 THEN SetTask(t, [c EXCEPT !.pc = "done", !.ok = TRUE])
                 ELSE \E h \in c.swarms :
                        SetTask(t, [c EXCEPT !.pc = "stats", !.info_hash = h])

\* self.stats.get(&info_hash) of update_peer, remove_peer, get_stats and the
\* reaper, which then collects the stale peers of the swarm
lock_get_stats(t) ==
    LET c == tasks[t]
        h == c.info_hash
    IN  /\ UNCHANGED registry
        /\ \/ /\ c.op \in {"update_peer", "remove_peer"} /\ c.pc = "stats"
              /\ SetTask(t, IF h \in DOMAIN stats
                            THEN [c EXCEPT !.pc = IF c.op = "update_peer" THEN "user_ips"
                                                  ELSE "remove"]
                            ELSE NotFound([c EXCEPT !.pc = "done", !.ok = FALSE],
                                          "Stats not found"))
           \/ /\ c.op = "get_stats" /\ c.pc = "start"
              /\ SetTask(t, [c EXCEPT !.pc = "done", !.ok = TRUE])
           \/ /\ c.op = "cleanup_stale_peers" /\ c.pc = "stats"
              /\ SetTask(t, IF h \in DOMAIN stats
                            THEN [c EXCEPT !.pc = "remove",
                                     !.stale = [k \in stale_peers(peers[h], PeerTimeout,
                                                                  c.current_time)
                                                  |-> peers[h][k]]]
                            ELSE NotFound([c EXCEPT !.pc = "next", !.swarms = @ \ {h}],
                                          "Stats not found"))

\* the end of get_peers, after the loop over the swarm, and
\* get_user_ip_count
lock_read(t) ==
    LET c == tasks[t]
    IN  /\ UNCHANGED registry
        /\ \/ c.op = "get_peers" /\ c.pc = "iter"
           \/ c.op = "get_user_ip_count" /\ c.pc = "start"
        /\ SetTask(t, [c EXCEPT !.pc = "done", !.ok = TRUE])

\* one access of one of the calls in flight, when the lock grants its guard
LockStep ==
    /\ \E t \in DOMAIN tasks :
          /\ Granted(t)
          /\ \/ lock_add_peer(t) \/ lock_get_swarm(t) \/ lock_get_stats(t) \/ lock_read(t)
             \/ update_user_ips(t) \/ update_old_peer(t) \/ update_insert(t)
             \/ remove_remove(t) \/ remove_user_ips(t)
             \/ cleanup_start(t) \/ cleanup_remove(t) \/ cleanup_user_ips(t)
    /\ UNCHANGED last_op
    /\ StoreRaceUnchanged

\* the calls made together: two peers of one user on one swarm
LockCalls ==
    <<StoreTask("add_peer", "h1", "pA", Peer_new(7, 1, "pA", "10.0.0.1", 0, 0, 1000, now)),
      StoreTask("add_peer", "h1", "pB", Peer_new(7, 1, "pB", "10.0.0.2", 0, 0, 0, now)),
      StoreTask("update_peer", "h1", "pA", Peer_new(7, 1, "pA", "10.0.0.2", 0, 0, 0, now)),
      StoreTask("remove_peer", "h1", "pA", Peer_new(0, 0, "pA", "absent", 0, 0, 0, 0)),
      StoreTask("get_peers", "h1", "pA", Peer_new(0, 0, "pA", "absent", 0, 0, 0, 0)),
      StoreTask("get_stats", "h1", "pA", Peer_new(0, 0, "pA", "absent", 0, 0, 0, 0)),
      StoreTask("get_user_ip_count", "h1", "pA", Peer_new(7, 1, "pA", "absent", 0, 0, 0, 0)),
      ReaperTask>>

\* a first peer is registered with nothing else running
LockRegister ==
    /\ tasks = EmptyMap
    /\ peers = EmptyMap
    /\ SetStore(add_peer(Store, "h1",
                         Peer_new(7, 1, "pA", "10.0.0.1", 0, 0, 1000, now)).store)
    /\ last_op' = [op |-> "add_peer", info_hash |-> "h1", peer_id |-> "pA", ok |-> TRUE]
    /\ UNCHANGED tasks
    /\ StoreRaceUnchanged

\* three callers use the registry at the same time; which task makes which
\* call makes no difference
LockSpawn ==
    /\ tasks = EmptyMap
    /\ \E i, j, k \in 1..Len(LockCalls) :
          /\ i <= j /\ j <= k
          /\ tasks' = [t \in TaskIds |-> LockCalls[IF t = "t1" THEN i
                                                   ELSE IF t = "t2" THEN j ELSE k]]
    /\ last_op' = [op |-> "spawn", before |-> Store]
    /\ UNCHANGED registry
    /\ StoreRaceUnchanged

NextLocks == LockRegister \/ ReaperTick \/ LockSpawn \/ LockStep

\* the runtime's workers run every call that can take a step
SpecLocks == InitEmpty /\ [][NextLocks]_vars /\ WF_vars(LockStep)

----------------------------------------------------------------------------
(* wal/wal.rs, core/startup.rs, handlers/admin.rs *)

\* hex::encode writing one digit for each byte
hex_encode_truncated(bytes) ==
    CASE bytes = "h1"  -> "1a"
      [] bytes = "h2"  -> "2b"
      [] bytes = "pk7" -> "7c"
      [] bytes = "pk8" -> "8d"
      [] OTHER -> "00"

\* hex::encode of the byte strings of the model: lower-case digits
hex_encode(bytes) ==
    CASE bytes = "h1"  -> "1a1a"
      [] bytes = "h2"  -> "2b2b"
      [] bytes = "pk7" -> "7c7c"
      [] bytes = "pk8" -> "8d8d"
      [] OTHER -> "00"

\* hex::decode: both cases of the digits are read; a text with a character
\* that is no hex digit is an error; the byte string has a length
hex_decode(text) ==
    CASE text \in {"1a1a", "1A1A"} -> [ok |-> TRUE, bytes |-> "h1", len |-> 20]
      [] text \in {"2b2b", "2B2B"} -> [ok |-> TRUE, bytes |-> "h2", len |-> 20]
      [] text \in {"7c7c", "7C7C"} -> [ok |-> TRUE, bytes |-> "pk7", len |-> 32]
      [] text \in {"8d8d", "8D8D"} -> [ok |-> TRUE, bytes |-> "pk8", len |-> 32]
      [] text = "1a"               -> [ok |-> TRUE, bytes |-> "short", len |-> 1]
      [] OTHER                     -> [ok |-> FALSE, bytes |-> "", len |-> 0]

\* str::parse::<u32>() and str::parse::<u8>() on the number texts of the model
parse_number(text) ==
    LET ns == {n \in {0, 1, 2, 10, 20} : ToString(n) = text}
    IN  IF ns = {} THEN [ok |-> FALSE, value |-> 0]
        ELSE [ok |-> TRUE, value |-> CHOOSE n \in ns : TRUE]

\* WalOperation::to_string with the freeleech flag written as a word
to_string_flag_word(op) ==
    CASE op.type = "AddTorrent" ->
            <<"ADD_TORRENT", ToString(op.id), hex_encode(op.info_hash),
              IF op.freeleech THEN "true" ELSE "false">>
      [] op.type = "RemoveTorrent" -> <<"REMOVE_TORRENT", hex_encode(op.info_hash)>>
      [] op.type = "AddUser" ->
            <<"ADD_USER", ToString(op.id), hex_encode(op.passkey), ToString(op.class)>>
      [] op.type = "RemoveUser" -> <<"REMOVE_USER", hex_encode(op.passkey)>>

\* WalOperation::to_string: a line is the sequence of its pipe-delimited fields
to_string(op) ==
    CASE op.type = "AddTorrent" ->
            <<"ADD_TORRENT", ToString(op.id), hex_encode(op.info_hash),
              IF op.freeleech THEN "1" ELSE "0">>
      [] op.type = "RemoveTorrent" -> <<"REMOVE_TORRENT", hex_encode(op.info_hash)>>
      [] op.type = "AddUser" ->
            <<"ADD_USER", ToString(op.id), hex_encode(op.passkey), ToString(op.class)>>
      [] op.type = "RemoveUser" -> <<"REMOVE_USER", hex_encode(op.passkey)>>

ParseError == [ok |-> FALSE]

\* WalOperation::from_string
from_string(parts) ==
    IF parts = <<>> THEN ParseError
    ELSE IF parts[1] = "ADD_TORRENT" THEN
        IF Len(parts) # 4 THEN ParseError
        ELSE IF ~parse_number(parts[2]).ok THEN ParseError
        ELSE IF ~hex_decode(parts[3]).ok THEN ParseError
        ELSE IF hex_decode(parts[3]).len # 20 THEN ParseError
        ELSE [ok |-> TRUE,
              op |-> [type |-> "AddTorrent", id |-> parse_number(parts[2]).value,
                      info_hash |-> hex_decode(parts[3]).bytes,
                      freeleech |-> (parts[4] = "1")]]
    ELSE IF parts[1] = "REMOVE_TORRENT" THEN
        IF Len(parts) # 2 THEN ParseError
        ELSE IF ~hex_decode(parts[2]).ok THEN ParseError
        ELSE IF hex_decode(parts[2]).len # 20 THEN ParseError
        ELSE [ok |-> TRUE,
              op |-> [type |-> "RemoveTorrent", info_hash |-> hex_decode(parts[2]).bytes]]
    ELSE IF parts[1] = "ADD_USER" THEN
        IF Len(parts) # 4 THEN ParseError
        ELSE IF ~parse_number(parts[2]).ok THEN ParseError
        ELSE IF ~hex_decode(parts[3]).ok THEN ParseError
        ELSE IF hex_decode(parts[3]).len # 32 THEN ParseError
        ELSE IF ~parse_number(parts[4]).ok THEN ParseError
        ELSE [ok |-> TRUE,
              op |-> [type |-> "AddUser", id |-> parse_number(parts[2]).value,
                      passkey |-> hex_decode(parts[3]).bytes,
                      class |-> parse_number(parts[4]).value]]
    ELSE IF parts[1] = "REMOVE_USER" THEN
        IF Len(parts) # 2 THEN ParseError
        ELSE IF ~hex_decode(parts[2]).ok THEN ParseError
        ELSE IF hex_decode(parts[2]).len # 32 THEN ParseError
        ELSE [ok |-> TRUE,
              op |-> [type |-> "RemoveUser", passkey |-> hex_decode(parts[2]).bytes]]
    ELSE ParseError

\* Wal::log_operation: the possible results of writeln! and flush.  The line
\* is in the file when both succeed; a failed write leaves the file as it
\* was, a failed flush may leave the line written.
log_operation(file, op) ==
    {[ok |-> TRUE,  file |-> Append(file, to_string(op))],
     [ok |-> FALSE, file |-> file],
     [ok |-> FALSE, file |-> Append(file, to_string(op))]}

\* str::trim on a line of the model: a line of white space becomes empty
trim(line) == IF line = <<" ">> THEN <<"">> ELSE line

\* Wal::replay: the operations of the lines that parse, in order
RECURSIVE replay(_)
replay(file) ==
    IF file = <<>> THEN <<>>
    ELSE LET line == trim(Head(file))
         IN  IF line = <<>> \/ line = <<"">> THEN replay(Tail(file))
             ELSE IF from_string(line).ok
                  THEN <<from_string(line).op>> \o replay(Tail(file))
                  ELSE replay(Tail(file))

----------------------------------------------------------------------------
(* The log file written by log_operation and by other hands, and replayed *)

\* the values of WalOperation over the ids, keys and classes of the model
WalOperation ==
    {[type |-> "AddTorrent", id |-> i, info_hash |-> h, freeleech |-> f] :
        i \in {0, 10, 20}, h \in {"h1", "h2"}, f \in BOOLEAN}
    \cup {[type |-> "RemoveTorrent", info_hash |-> h] : h \in {"h1", "h2"}}
    \cup {[type |-> "AddUser", id |-> i, passkey |-> k, class |-> c] :
            i \in {0, 10, 20}, k \in {"pk7", "pk8"}, c \in {0, 1, 2}}
    \cup {[type |-> "RemoveUser", passkey |-> k] : k \in {"pk7", "pk8"}}

\* the operations the tracker logs in the runs of the model
LoggedOperations ==
    {op \in WalOperation :
        /\ op.type \in {"AddTorrent", "AddUser"} => op.id = 10
        /\ op.type = "AddUser" => op.class = 2
        /\ op.type \in {"AddTorrent", "RemoveTorrent"} => op.info_hash = "h1"}

\* lines that reach the file by other ways than log_operation
ForeignLines ==
    {<<"">>, <<" ">>,
     <<"INVALID_OP", "data">>,
     <<"ADD_TORRENT", "10", "1a1a">>,
     <<"ADD_TORRENT", "x", "1a1a", "1">>,
     <<"ADD_TORRENT", "10", "1a", "1">>,
     <<"ADD_TORRENT", "10", "1a1a", "2">>,
     <<"ADD_USER", "20", "zz", "1">>,
     <<"REMOVE_USER", "1a1a">>,
     <<"REMOVE_TORRENT", "1A1A">>}

WalUnchanged ==
    UNCHANGED <<registry, torrent_cache, user_cache, ip_blacklist, client_blacklist,
                requests, metrics, now, last_req, window, tasks>>

WalLog ==
    /\ Len(wal) < MaxWalLines
    /\ \E op \in LoggedOperations :
        \E r \in log_operation(wal, op) :
            /\ wal' = r.file
            /\ last_op' = [op |-> "log_operation", arg |-> op, ok |-> r.ok]
    /\ WalUnchanged

WalForeign ==
    /\ Len(wal) < MaxWalLines
    /\ \E line \in ForeignLines : wal' = Append(wal, line)
    /\ last_op' = [op |-> "foreign"]
    /\ WalUnchanged

WalReplay ==
    /\ last_op' = [op |-> "replay", operations |-> replay(wal)]
    /\ UNCHANGED wal
    /\ WalUnchanged

NextWal == WalLog \/ WalForeign \/ WalReplay

SpecWal == InitEmpty /\ [][NextWal]_vars

Torrent_new(id, is_freeleech, is_active) ==
    [id |-> id, is_freeleech |-> is_freeleech, is_active |-> is_active]

User_new(id, class, is_active) == [id |-> id, class |-> class, is_active |-> is_active]

\* the known-entity caches as one value
Caches == [torrents |-> torrent_cache, users |-> user_cache]

EmptyCaches == [torrents |-> EmptyMap, users |-> EmptyMap]

\* apply_wal_operations
RECURSIVE apply_wal_operations(_, _)
apply_wal_operations(caches, operations) ==
    IF operations = <<>> THEN caches
    ELSE LET op == Head(operations)
             next ==
                CASE op.type = "AddTorrent" ->
                        [caches EXCEPT !.torrents =
                            Put(@, op.info_hash, Torrent_new(op.id, op.freeleech, TRUE))]
                  [] op.type = "RemoveTorrent" ->
                        [caches EXCEPT !.torrents = Del(@, op.info_hash)]
                  [] op.type = "AddUser" ->
                        [caches EXCEPT !.users =
                            Put(@, op.passkey, User_new(op.id, op.class, TRUE))]
                  [] op.type = "RemoveUser" ->
                        [caches EXCEPT !.users = Del(@, op.passkey)]
         IN  apply_wal_operations(next, Tail(operations))

\* config.sync.api_key
ApiKey == "secret"

verify_api_key(provided, expected) == provided = expected

\* an admin handler returns an error: nothing changes
AdminError(handler, status) ==
    /\ last_op' = [op |-> handler, status |-> status, wal_error |-> FALSE]
    /\ UNCHANGED <<torrent_cache, user_cache, wal>>

\* the cache was changed; the operation is logged, and a log error fails
\* the request
AdminLogged_failing(handler, op) ==
    \E w \in log_operation(wal, op) :
        /\ wal' = w.file
        /\ last_op' = [op |-> handler, status |-> IF w.ok THEN "ok" ELSE "internal-error",
                       wal_error |-> ~w.ok, logged |-> op]

\* the cache was changed; the operation is logged, a log error is swallowed
AdminLogged(handler, op) ==
    \E w \in log_operation(wal, op) :
        /\ wal' = w.file
        /\ last_op' = [op |-> handler, status |-> "ok", wal_error |-> ~w.ok,
                       logged |-> op]

AdminUnchanged ==
    UNCHANGED <<registry, ip_blacklist, client_blacklist, requests, metrics, now,
                last_req, window, tasks>>

torrent_add_handler(api_key, id, info_hash, freeleech) ==
    /\ AdminUnchanged
    /\ IF ~verify_api_key(api_key, ApiKey)
       THEN AdminError("torrent_add", "invalid-api-key")
       ELSE IF ~hex_decode(info_hash).ok
       THEN AdminError("torrent_add", "hex-decode-error")
       ELSE IF hex_decode(info_hash).len # 20
       THEN AdminError("torrent_add", "invalid-length")
       ELSE LET bytes == hex_decode(info_hash).bytes
            IN  /\ torrent_cache' = Put(torrent_cache, bytes,
                                        Torrent_new(id, freeleech # 0, TRUE))
                /\ user_cache' = user_cache
                /\ AdminLogged("torrent_add",
                               [type |-> "AddTorrent", id |-> id, info_hash |-> bytes,
                                freeleech |-> (freeleech # 0)])

\* torrent removal that also drops the swarm of the torrent from the registry
torrent_remove_handler_purging(api_key, info_hash) ==
    /\ UNCHANGED <<ip_blacklist, client_blacklist, requests, metrics, now, last_req,
                   window, tasks>>
    /\ IF ~verify_api_key(api_key, ApiKey)
       THEN AdminError("torrent_remove", "invalid-api-key") /\ UNCHANGED registry
       ELSE IF ~hex_decode(info_hash).ok
       THEN AdminError("torrent_remove", "hex-decode-error") /\ UNCHANGED registry
       ELSE IF hex_decode(info_hash).len # 20
       THEN AdminError("torrent_remove", "invalid-length") /\ UNCHANGED registry
       ELSE IF hex_decode(info_hash).bytes \notin DOMAIN torrent_cache
       THEN AdminError("torrent_remove", "not-found") /\ UNCHANGED registry
       ELSE LET bytes == hex_decode(info_hash).bytes
            IN  /\ torrent_cache' = Del(torrent_cache, bytes)
                /\ user_cache' = user_cache
                /\ peers' = Del(peers, bytes)
                /\ stats' = Del(stats, bytes)
                /\ user_ips' = user_ips
                /\ AdminLogged("torrent_remove",
                               [type |-> "RemoveTorrent", info_hash |-> bytes])

torrent_remove_handler(api_key, info_hash) ==
    /\ AdminUnchanged
    /\ IF ~verify_api_key(api_key, ApiKey)
       THEN AdminError("torrent_remove", "invalid-api-key")
       ELSE IF ~hex_decode(info_hash).ok
       THEN AdminError("torrent_remove", "hex-decode-error")
       ELSE IF hex_decode(info_hash).len # 20
       THEN AdminError("torrent_remove", "invalid-length")
       ELSE IF hex_decode(info_hash).bytes \notin DOMAIN torrent_cache
       THEN AdminError("torrent_remove", "not-found")
       ELSE LET bytes == hex_decode(info_hash).bytes
            IN  /\ torrent_cache' = Del(torrent_cache, bytes)
                /\ user_cache' = user_cache
                /\ AdminLogged("torrent_remove",
                               [type |-> "RemoveTorrent", info_hash |-> bytes])

user_add_handler(api_key, id, passkey, class) ==
    /\ AdminUnchanged
    /\ IF ~verify_api_key(api_key, ApiKey)
       THEN AdminError("user_add", "invalid-api-key")
       ELSE IF ~hex_decode(passkey).ok
       THEN AdminError("user_add", "hex-decode-error")
       ELSE IF hex_decode(passkey).len # 32
       THEN AdminError("user_add", "invalid-length")
       ELSE LET bytes == hex_decode(passkey).bytes
            IN  /\ user_cache' = Put(user_cache, bytes, User_new(id, class, TRUE))
                /\ torrent_cache' = torrent_cache
                /\ AdminLogged("user_add",
                               [type |-> "AddUser", id |-> id, passkey |-> bytes,
                                class |-> class])

user_remove_handler(api_key, passkey) ==
    /\ AdminUnchanged
    /\ IF ~verify_api_key(api_key, ApiKey)
       THEN AdminError("user_remove", "invalid-api-key")
       ELSE IF ~hex_decode(passkey).ok
       THEN AdminError("user_remove", "hex-decode-error")
       ELSE IF hex_decode(passkey).len # 32
       THEN AdminError("user_remove", "invalid-length")
       ELSE IF hex_decode(passkey).bytes \notin DOMAIN user_cache
       THEN AdminError("user_remove", "not-found")
       ELSE LET bytes == hex_decode(passkey).bytes
            IN  /\ user_cache' = Del(user_cache, bytes)
                /\ torrent_cache' = torrent_cache
                /\ AdminLogged("user_remove", [type |-> "RemoveUser", passkey |-> bytes])

HexTexts == {"1a1a", "1A1A", "7c7c", "1a", "zz"}

\* the api keys sent: the configured one with every query, a wrong one with
\* one query of each handler
ApiKeys(text) == IF text = "1a1a" THEN {"secret", "wrong"} ELSE {"secret"}

TorrentAdd ==
    /\ Len(wal) < MaxLog
    /\ \E h \in HexTexts, id \in {10}, f \in {0, 2} :
           \E k \in ApiKeys(h) : torrent_add_handler(k, id, h, f)

TorrentRemove ==
    /\ Len(wal) < MaxLog
    /\ \E h \in HexTexts : \E k \in ApiKeys(h) : torrent_remove_handler(k, h)

UserAdd ==
    /\ Len(wal) < MaxLog
    /\ \E pk \in HexTexts, id \in {20}, c \in {1, 2} :
           \E k \in ApiKeys(pk) : user_add_handler(k, id, pk, c)

UserRemove ==
    /\ Len(wal) < MaxLog
    /\ \E pk \in HexTexts : \E k \in ApiKeys(pk) : user_remove_handler(k, pk)

NextAdmin == TorrentAdd \/ TorrentRemove \/ UserAdd \/ UserRemove

SpecAdmin == InitEmpty /\ [][NextAdmin]_vars

----------------------------------------------------------------------------
(* handlers/admin.rs: two torrent handlers on one info-hash handled on     *)
(* parallel workers of the runtime.  Each access to the cache and each     *)
(* append to the log, which is under the file's mutex, is one step.        *)

\* the call of a handler after its checks of the key and of the hex text
AdminTask(op, id, freeleech) ==
    [op |-> op, pc |-> IF op = "torrent_remove" THEN "check" ELSE "cache",
     id |-> id, info_hash |-> hex_decode("1a1a").bytes, freeleech |-> freeleech,
     status |-> "pending", wal_error |-> FALSE]

\* torrent_remove_handler: if state.torrent_cache.get_torrent(..).is_none()
admin_check(t) ==
    LET c == tasks[t]
    IN  /\ c.pc = "check"
        /\ SetTask(t, IF c.info_hash \in DOMAIN torrent_cache
                      THEN [c EXCEPT !.pc = "cache"]
                      ELSE [c EXCEPT !.pc = "done", !.status = "not-found"])
        /\ UNCHANGED <<torrent_cache, wal>>

\* state.torrent_cache.add_torrent(torrent) and .remove_torrent(info_hash)
admin_cache(t) ==
    LET c == tasks[t]
    IN  /\ c.pc = "cache"
        /\ torrent_cache' =
              IF c.op = "torrent_add"
              THEN Put(torrent_cache, c.info_hash, Torrent_new(c.id, c.freeleech, TRUE))
              ELSE Del(torrent_cache, c.info_hash)
        /\ SetTask(t, [c EXCEPT !.pc = "log"])
        /\ UNCHANGED wal

\* state.wal.log_operation(..), its error swallowed, and the 200 answer
admin_log(t) ==
    LET c == tasks[t]
        op == IF c.op = "torrent_add"
              THEN [type |-> "AddTorrent", id |-> c.id, info_hash |-> c.info_hash,
                    freeleech |-> c.freeleech]
              ELSE [type |-> "RemoveTorrent", info_hash |-> c.info_hash]
    IN  /\ c.pc = "log"
        /\ \E w \in log_operation(wal, op) :
              /\ wal' = w.file
              /\ SetTask(t, [c EXCEPT !.pc = "done", !.status = "ok", !.wal_error = ~w.ok])
        /\ UNCHANGED torrent_cache

AdminStep ==
    /\ \E t \in DOMAIN tasks : admin_check(t) \/ admin_cache(t) \/ admin_log(t)
    /\ UNCHANGED <<user_cache, last_op>>
    /\ UNCHANGED <<registry, ip_blacklist, client_blacklist, requests, metrics, now,
                   last_req, window>>

\* two requests for one info-hash arrive together
AdminSpawn ==
    /\ tasks = EmptyMap
    /\ \E a, b \in {AdminTask("torrent_add", 10, FALSE), AdminTask("torrent_add", 20, TRUE),
                    AdminTask("torrent_remove", 0, FALSE)} :
          tasks' = [t \in {"t1", "t2"} |-> IF t = "t1" THEN a ELSE b]
    /\ last_op' = [op |-> "spawn", before |-> Caches]
    /\ UNCHANGED <<torrent_cache, user_cache, wal>>
    /\ UNCHANGED <<registry, ip_blacklist, client_blacklist, requests, metrics, now,
                   last_req, window>>

\* a request handled with nothing else running
AdminAlone == tasks = EmptyMap /\ (TorrentAdd \/ TorrentRemove)

NextAdminRace == AdminAlone \/ AdminSpawn \/ AdminStep

SpecAdminRace == InitEmpty /\ [][NextAdminRace]_vars

----------------------------------------------------------------------------
(* handlers/admin.rs reload, handlers/blacklist.rs, handlers/metrics.rs,  *)
(* handlers/update.rs: every endpoint behind the api key                  *)

\* what the external API returns on a reload
ApiTorrents == {[id |-> 1, info_hash |-> "1a1a", is_freeleech |-> TRUE],
                [id |-> 2, info_hash |-> "zz", is_freeleech |-> FALSE]}

ApiUsers == {[id |-> 7, passkey |-> "pk7", len |-> 32, can_download |-> TRUE,
              security_locked |-> FALSE, user_class_id |-> 1],
             [id |-> 8, passkey |-> "short", len |-> 5, can_download |-> TRUE,
              security_locked |-> FALSE, user_class_id |-> 1]}

\* populate_from_api on cleared caches: records that do not decode are skipped
populate_from_api ==
    [torrents |-> [h \in {hex_decode(t.info_hash).bytes :
                            t \in {t \in ApiTorrents : /\ hex_decode(t.info_hash).ok
                                                       /\ hex_decode(t.info_hash).len = 20}}
                      |-> LET t == CHOOSE t \in ApiTorrents :
                                       /\ hex_decode(t.info_hash).ok
                                       /\ hex_decode(t.info_hash).bytes = h
                          IN  Torrent_new(t.id, t.is_freeleech, TRUE)],
     users    |-> [k \in {u.passkey : u \in {u \in ApiUsers : u.len = 32}}
                      |-> LET u == CHOOSE u \in ApiUsers : u.passkey = k
                          IN  User_new(u.id, u.user_class_id,
                                       u.can_download /\ ~u.security_locked)]]

\* Wal::truncate: the possible results of set_len and flush
truncate(file) ==
    {[ok |-> TRUE, file |-> <<>>], [ok |-> FALSE, file |-> file], [ok |-> FALSE, file |-> <<>>]}

\* reload_handler clearing the caches before it checks the key
reload_handler_clearing_first(api_key) ==
    /\ AdminUnchanged
    /\ IF ~verify_api_key(api_key, ApiKey)
       THEN /\ torrent_cache' = EmptyMap
            /\ user_cache' = EmptyMap
            /\ wal' = wal
            /\ last_op' = [op |-> "reload", status |-> "invalid-api-key", wal_error |-> FALSE]
       ELSE \/ /\ torrent_cache' = EmptyMap
               /\ user_cache' = EmptyMap
               /\ wal' = wal
               /\ last_op' = [op |-> "reload", status |-> "external-api-error",
                              wal_error |-> FALSE]
            \/ /\ torrent_cache' = populate_from_api.torrents
               /\ user_cache' = populate_from_api.users
               /\ \E t \in truncate(wal) :
                    /\ wal' = t.file
                    /\ last_op' = [op |-> "reload", status |-> "ok", wal_error |-> ~t.ok]

\* reload_handler overlaying the API data on the caches it did not clear
reload_handler_keeping_caches(api_key) ==
    /\ AdminUnchanged
    /\ IF ~verify_api_key(api_key, ApiKey)
       THEN AdminError("reload", "invalid-api-key")
       ELSE \/ /\ torrent_cache' = EmptyMap
               /\ user_cache' = EmptyMap
               /\ wal' = wal
               /\ last_op' = [op |-> "reload", status |-> "external-api-error",
                              wal_error |-> FALSE]
            \/ /\ torrent_cache' =
                    [h \in DOMAIN torrent_cache \cup DOMAIN populate_from_api.torrents |->
                        IF h \in DOMAIN populate_from_api.torrents
                        THEN populate_from_api.torrents[h] ELSE torrent_cache[h]]
               /\ user_cache' =
                    [k \in DOMAIN user_cache \cup DOMAIN populate_from_api.users |->
                        IF k \in DOMAIN populate_from_api.users
                        THEN populate_from_api.users[k] ELSE user_cache[k]]
               /\ \E t \in truncate(wal) :
                    /\ wal' = t.file
                    /\ last_op' = [op |-> "reload", status |-> "ok", wal_error |-> ~t.ok]

\* reload_handler leaving the caches as they were when the fetch fails
reload_handler_restoring(api_key) ==
    /\ AdminUnchanged
    /\ IF ~verify_api_key(api_key, ApiKey)
       THEN AdminError("reload", "invalid-api-key")
       ELSE \/ /\ UNCHANGED <<torrent_cache, user_cache>>
               /\ wal' = wal
               /\ last_op' = [op |-> "reload", status |-> "external-api-error",
                              wal_error |-> FALSE]
            \/ /\ torrent_cache' = populate_from_api.torrents
               /\ user_cache' = populate_from_api.users
               /\ \E t \in truncate(wal) :
                    /\ wal' = t.file
                    /\ last_op' = [op |-> "reload", status |-> "ok", wal_error |-> ~t.ok]

reload_handler(api_key) ==
    /\ AdminUnchanged
    /\ IF ~verify_api_key(api_key, ApiKey)
       THEN AdminError("reload", "invalid-api-key")
       ELSE \/ /\ torrent_cache' = EmptyMap
               /\ user_cache' = EmptyMap
               /\ wal' = wal
               /\ last_op' = [op |-> "reload", status |-> "external-api-error",
                              wal_error |-> FALSE]
            \/ /\ torrent_cache' = populate_from_api.torrents
               /\ user_cache' = populate_from_api.users
               /\ \E t \in truncate(wal) :
                    /\ wal' = t.file
                    /\ last_op' = [op |-> "reload", status |-> "ok", wal_error |-> ~t.ok]

\* what the blacklist and monitoring handlers leave alone
BlacklistUnchanged ==
    UNCHANGED <<registry, torrent_cache, user_cache, requests, metrics, wal, now,
                last_req, window, tasks>>

BlacklistAnswer(handler, status) ==
    last_op' = [op |-> handler, status |-> status, wal_error |-> FALSE]

ip_ban_handler(api_key, ip) ==
    /\ BlacklistUnchanged
    /\ client_blacklist' = client_blacklist
    /\ IF ~verify_api_key(api_key, ApiKey)
       THEN BlacklistAnswer("ip_ban", "invalid-api-key") /\ ip_blacklist' = ip_blacklist
       ELSE IF ip \notin ParsableIPs
       THEN BlacklistAnswer("ip_ban", "invalid-ip-address") /\ ip_blacklist' = ip_blacklist
       ELSE BlacklistAnswer("ip_ban", "ok") /\ ip_blacklist' = ip_blacklist \cup {ip}

ip_unban_handler(api_key, ip) ==
    /\ BlacklistUnchanged
    /\ client_blacklist' = client_blacklist
    /\ IF ~verify_api_key(api_key, ApiKey)
       THEN BlacklistAnswer("ip_unban", "invalid-api-key") /\ ip_blacklist' = ip_blacklist
       ELSE IF ip \notin ParsableIPs
       THEN BlacklistAnswer("ip_unban", "invalid-ip-address") /\ ip_blacklist' = ip_blacklist
       ELSE BlacklistAnswer("ip_unban", "ok") /\ ip_blacklist' = ip_blacklist \ {ip}

ip_list_handler(api_key) ==
    /\ BlacklistUnchanged
    /\ UNCHANGED <<ip_blacklist, client_blacklist>>
    /\ IF ~verify_api_key(api_key, ApiKey)
       THEN BlacklistAnswer("ip_list", "invalid-api-key")
       ELSE BlacklistAnswer("ip_list", "ok")

client_ban_handler(api_key, client) ==
    /\ BlacklistUnchanged
    /\ ip_blacklist' = ip_blacklist
    /\ IF ~verify_api_key(api_key, ApiKey)
       THEN BlacklistAnswer("client_ban", "invalid-api-key")
            /\ client_blacklist' = client_blacklist
       ELSE BlacklistAnswer("client_ban", "ok")
            /\ client_blacklist' = client_blacklist \cup {client}

client_unban_handler(api_key, client) ==
    /\ BlacklistUnchanged
    /\ ip_blacklist' = ip_blacklist
    /\ IF ~verify_api_key(api_key, ApiKey)
       THEN BlacklistAnswer("client_unban", "invalid-api-key")
            /\ client_blacklist' = client_blacklist
       ELSE BlacklistAnswer("client_unban", "ok")
            /\ client_blacklist' = client_blacklist \ {client}

client_list_handler(api_key) ==
    /\ BlacklistUnchanged
    /\ UNCHANGED <<ip_blacklist, client_blacklist>>
    /\ IF ~verify_api_key(api_key, ApiKey)
       THEN BlacklistAnswer("client_list", "invalid-api-key")
       ELSE BlacklistAnswer("client_list", "ok")

metrics_handler(api_key) ==
    /\ BlacklistUnchanged
    /\ UNCHANGED <<ip_blacklist, client_blacklist>>
    /\ IF ~verify_api_key(api_key, ApiKey)
       THEN BlacklistAnswer("metrics", "invalid-api-key")
       ELSE BlacklistAnswer("metrics", "ok")

update_handler(api_key) ==
    /\ BlacklistUnchanged
    /\ UNCHANGED <<ip_blacklist, client_blacklist>>
    /\ IF ~verify_api_key(api_key, ApiKey)
       THEN BlacklistAnswer("update", "invalid-api-key")
       ELSE BlacklistAnswer("update", "ok")

\* the keys, addresses and client names sent to the endpoints
SentKeys == {"secret", "wrong"}

\* AdminError::into_response: the HTTP status of an answer of the cache
\* handlers and of reload
into_response(status) ==
    CASE status = "ok" -> 200
      [] status = "invalid-api-key" -> 401
      [] status \in {"invalid-parameter", "hex-decode-error", "invalid-length"} -> 400
      [] status = "not-found" -> 404
      [] status \in {"api-client-error", "external-api-error", "wal-error",
                     "internal-error"} -> 500

SentIPs == {"10.0.0.1", "not-an-ip"}

SentClients == {"BadClient"}

TorrentAddEndpoint ==
    /\ Len(wal) < MaxEndpointLog
    /\ \E k \in SentKeys : torrent_add_handler(k, 10, "1a1a", 0)

TorrentRemoveEndpoint ==
    /\ Len(wal) < MaxEndpointLog
    /\ \E k \in SentKeys : torrent_remove_handler(k, "1a1a")

UserAddEndpoint ==
    /\ Len(wal) < MaxEndpointLog
    /\ \E k \in SentKeys : user_add_handler(k, 20, "7c7c", 2)

UserRemoveEndpoint ==
    /\ Len(wal) < MaxEndpointLog
    /\ \E k \in SentKeys : user_remove_handler(k, "7c7c")

Reload == \E k \in SentKeys : reload_handler(k)

IpBan == \E k \in SentKeys, ip \in SentIPs : ip_ban_handler(k, ip)

IpUnban == \E k \in SentKeys, ip \in SentIPs : ip_unban_handler(k, ip)

IpList == \E k \in SentKeys : ip_list_handler(k)

ClientBan == \E k \in SentKeys, c \in SentClients : client_ban_handler(k, c)

ClientUnban == \E k \in SentKeys, c \in SentClients : client_unban_handler(k, c)

ClientList == \E k \in SentKeys : client_list_handler(k)

MetricsEndpoint == \E k \in SentKeys : metrics_handler(k)

UpdateEndpoint == \E k \in SentKeys : update_handler(k)

NextEndpoints ==
    \/ TorrentAddEndpoint \/ TorrentRemoveEndpoint \/ UserAddEndpoint
    \/ UserRemoveEndpoint \/ Reload
    \/ IpBan \/ IpUnban \/ IpList \/ ClientBan \/ ClientUnban \/ ClientList
    \/ MetricsEndpoint \/ UpdateEndpoint

SpecEndpoints == InitServing /\ [][NextEndpoints]_vars

\* the endpoints that change the caches and the blacklists, beside announces
\* and the reaper
RegistryRequests ==
    {Request("pk7", "pA", e, 1000, "10.0.0.1", 50, 1) : e \in {"", "stopped"}}

AnnounceRegistry ==
    \E req \in RegistryRequests : Announce(req) /\ last_req' = req

\* an admin request arrives after an announce was answered
AfterAnnounce == last_op.op = "announce"

NextAdminRegistry ==
    \/ AnnounceRegistry \/ Reap \/ Tick
    \/ AfterAnnounce /\ TorrentAddEndpoint
    \/ AfterAnnounce /\ TorrentRemoveEndpoint
    \/ AfterAnnounce /\ UserAddEndpoint
    \/ AfterAnnounce /\ UserRemoveEndpoint
    \/ AfterAnnounce /\ Reload
    \/ AfterAnnounce /\ IpBan
    \/ AfterAnnounce /\ IpUnban
    \/ AfterAnnounce /\ ClientBan
    \/ AfterAnnounce /\ ClientUnban

SpecAdminRegistry == InitServing /\ [][NextAdminRegistry]_vars

----------------------------------------------------------------------------
(* main.rs async_main: the caches at startup, from the log and the API     *)

\* populate_from_api on caches that hold entries: add_torrent and add_user
\* replace the entry under a key the caches already hold
populate_from_api_into(caches) ==
    [torrents |-> [h \in DOMAIN caches.torrents \cup DOMAIN populate_from_api.torrents |->
                      IF h \in DOMAIN populate_from_api.torrents
                      THEN populate_from_api.torrents[h] ELSE caches.torrents[h]],
     users    |-> [k \in DOMAIN caches.users \cup DOMAIN populate_from_api.users |->
                      IF k \in DOMAIN populate_from_api.users
                      THEN populate_from_api.users[k] ELSE caches.users[k]]]

\* async_main with the API data put into the caches before the log is applied
async_main_api_first(file) ==
    {[status |-> "aborted", api_ok |-> FALSE, caches |-> EmptyCaches],
     [status |-> "aborted", api_ok |-> FALSE,
      caches |-> apply_wal_operations(EmptyCaches, replay(file))],
     [status |-> "ok", api_ok |-> TRUE,
      caches |-> apply_wal_operations(populate_from_api_into(EmptyCaches), replay(file))],
     [status |-> "ok", api_ok |-> FALSE,
      caches |-> apply_wal_operations(EmptyCaches, replay(file))]}

\* async_main up to the spawn of the reaper: the caches of AppState::new are
\* empty; a replay that cannot read the file or an HTTP client that cannot be
\* built ends the process; a failed fetch is logged and startup goes on
async_main(file) ==
    LET replayed == apply_wal_operations(EmptyCaches, replay(file))
    IN  {[status |-> "aborted", api_ok |-> FALSE, caches |-> EmptyCaches],
         [status |-> "aborted", api_ok |-> FALSE, caches |-> replayed],
         [status |-> "ok", api_ok |-> TRUE, caches |-> populate_from_api_into(replayed)],
         [status |-> "ok", api_ok |-> FALSE, caches |-> replayed]}

\* the process is started (again) on the log file as it is
Startup ==
    /\ \E r \in async_main(wal) :
          /\ torrent_cache' = r.caches.torrents
          /\ user_cache' = r.caches.users
          /\ last_op' = [op |-> "startup", status |-> r.status, api_ok |-> r.api_ok,
                         wal_error |-> FALSE]
    /\ UNCHANGED wal
    /\ AdminUnchanged

\* the tracker is serving requests
Serving == ~(last_op.op = "startup" /\ last_op.status = "aborted")

\* the admin requests of the runs between two starts
StartupTorrentAdd ==
    /\ Serving
    /\ Len(wal) < MaxLog
    /\ \E h \in {"1a1a", "2b2b"} : torrent_add_handler(ApiKey, 10, h, 0)

StartupTorrentRemove ==
    /\ Serving
    /\ Len(wal) < MaxLog
    /\ \E h \in {"1a1a", "2b2b"} : torrent_remove_handler(ApiKey, h)

StartupUserAdd ==
    /\ Serving
    /\ Len(wal) < MaxLog
    /\ \E pk \in {"7c7c", "8d8d"} : user_add_handler(ApiKey, 20, pk, 2)

StartupUserRemove ==
    /\ Serving
    /\ Len(wal) < MaxLog
    /\ \E pk \in {"7c7c", "8d8d"} : user_remove_handler(ApiKey, pk)

NextStartup ==
    \/ StartupTorrentAdd \/ StartupTorrentRemove \/ StartupUserAdd
    \/ StartupUserRemove \/ Startup

SpecStartup == InitEmpty /\ [][NextStartup]_vars

----------------------------------------------------------------------------
(* api/client.rs: fetch_data, one request of the loop per step.  The       *)
(* external API answers each request as it likes.  The pagination and      *)
(* timestamp fields of a page are carried to the result and decide         *)
(* nothing; they are left out.                                             *)

\* the number of pages fetch_data asks for at most: it is 1000 in
\* `if page > 1000`, scaled down here
MaxPages == 3

\* the items a page can carry in one array, named after the page
PageTorrents(page) == {<<>>, <<10 * page>>, <<10 * page, 10 * page + 1>>}

PageUsers(page) == {<<>>, <<10 * page + 5>>}

\* the answers to the request for a page: a page of data, no answer (an
\* error or the 30 s timeout of the client of ApiClient::new), a status
\* that is not a success, a body that is not an ApiData
Responses(page) ==
    {[kind |-> "ok", torrents |-> ts, users |-> us] :
        ts \in PageTorrents(page), us \in PageUsers(page)}
    \cup {[kind |-> k, torrents |-> <<>>, users |-> <<>>] :
            k \in {"send_failed", "error_status", "bad_json"}}

\* has_more requiring both arrays to be filled
has_more_both(data) == data.torrents # <<>> /\ data.users # <<>>

\* let has_more = !data.torrents.is_empty() || !data.users.is_empty()
has_more(data) == data.torrents # <<>> \/ data.users # <<>>

\* the state of a call at `let mut page = 1`; responses is the history of
\* the answers received
fetch_data_start ==
    [op |-> "fetch_data", pc |-> "loop", page |-> 1, all_torrents |-> <<>>,
     all_users |-> <<>>, result |-> "pending", error |-> "none", responses |-> <<>>]

Returned(c, result, error) ==
    [c EXCEPT !.pc = "done", !.result = result, !.error = error]

\* one pass of the loop, the request for c.page answered with resp
fetch_page(c, resp) ==
    LET c0 == [c EXCEPT !.responses = Append(@, resp)]
    IN  CASE resp.kind = "send_failed" ->
                Returned(c0, "Err", "Failed to send request to external API")
          [] resp.kind = "error_status" ->
                Returned(c0, "Err", "External API returned error status")
          [] resp.kind = "bad_json" ->
                Returned(c0, "Err", "Failed to parse JSON response from external API")
          [] OTHER ->
                LET c1 == [c0 EXCEPT !.all_torrents = @ \o resp.torrents,
                                     !.all_users = @ \o resp.users]
                IN  IF ~has_more(resp) THEN Returned(c1, "Ok", "none")
                    ELSE IF c.page + 1 > MaxPages
                         THEN Returned([c1 EXCEPT !.page = c.page + 1], "Err",
                                       "Too many pages, possible infinite loop")
                         ELSE [c1 EXCEPT !.page = c.page + 1]

FetchUnchanged ==
    UNCHANGED <<registry, torrent_cache, user_cache, ip_blacklist, client_blacklist,
                requests, metrics, wal, now, last_req, window>>

\* fetch_data is called, by startup or by a reload
FetchCall ==
    /\ tasks = EmptyMap \/ AllDone
    /\ tasks' = [t \in {"fetch"} |-> fetch_data_start]
    /\ last_op' = [op |-> "fetch_data"]
    /\ FetchUnchanged

\* the call sends the request for its page and handles the answer
FetchPage ==
    /\ tasks # EmptyMap /\ ~AllDone
    /\ \E resp \in Responses(tasks["fetch"].page) :
          /\ SetTask("fetch", fetch_page(tasks["fetch"], resp))
          /\ last_op' = [op |-> "request", page |-> tasks["fetch"].page]
    /\ FetchUnchanged

NextFetch == FetchCall \/ FetchPage

\* the call runs on the runtime and every request is answered or times out,
\* so a pass of the loop that can run does run
SpecFetch == InitEmpty /\ [][NextFetch]_vars /\ WF_vars(FetchPage)

----------------------------------------------------------------------------
(* Properties of the peer registry *)

\* the peers of a swarm that are stored with the seeder flag
StoredSeeders(info_hash) ==
    {k \in DOMAIN peers[info_hash] : peers[info_hash][k].is_seeder}

\* C1: in every swarm the seeder and leecher counters add up to the number
\* of peers in the swarm's map, and the seeder counter is the number of
\* stored peers with the seeder flag, whatever sequence of add, update,
\* remove and cleanup calls was made
C1_CountersMatchPeers ==
    \A info_hash \in DOMAIN peers :
        /\ info_hash \in DOMAIN stats
        /\ stats[info_hash].seeders + stats[info_hash].leechers
               = Cardinality(DOMAIN peers[info_hash])
        /\ stats[info_hash].seeders = Cardinality(StoredSeeders(info_hash))

\* the addresses of the stored peers of one user in one torrent
StoredIPs(user_id, torrent_id) ==
    {peers[h][k].ip : <<h, k>> \in
        {hk \in InfoHashes \X PeerIds :
            /\ hk[1] \in DOMAIN peers
            /\ hk[2] \in DOMAIN peers[hk[1]]
            /\ peers[hk[1]][hk[2]].user_id = user_id
            /\ peers[hk[1]][hk[2]].torrent_id = torrent_id}}

\* C2: the user-IP index entry of a (user, torrent) pair is the set of the
\* distinct addresses of that user's stored peers in that swarm, and there is
\* no entry exactly when the user has no peer there
C2_UserIpIndexExact ==
    \A user_id \in {7, 8, 9}, torrent_id \in {1} :
        IF StoredIPs(user_id, torrent_id) = {}
        THEN <<user_id, torrent_id>> \notin DOMAIN user_ips
        ELSE /\ <<user_id, torrent_id>> \in DOMAIN user_ips
             /\ user_ips[<<user_id, torrent_id>>] = StoredIPs(user_id, torrent_id)

\* an announce that was answered with a peer list
AnsweredOk(op) == op.op = "announce" /\ op.class = "ok"

\* C3: when a peer stored as a leecher announces again with event=completed
\* and left=0, the swarm's counters move one from leechers to seeders
C3_CompletedMovesLeecherToSeeder ==
    [][(/\ AnsweredOk(last_op') /\ last_op'.event = "completed" /\ last_op'.left = 0
        /\ last_op'.info_hash \in DOMAIN peers
        /\ last_op'.peer_id \in DOMAIN peers[last_op'.info_hash]
        /\ ~peers[last_op'.info_hash][last_op'.peer_id].is_seeder)
       => (/\ stats'[last_op'.info_hash].seeders
                  = stats[last_op'.info_hash].seeders + 1
           /\ stats'[last_op'.info_hash].leechers
                  = stats[last_op'.info_hash].leechers - 1)]_vars

\* C4: after a stopped announce that passed the gates the peer id is not in
\* the swarm's map; if it was there, the counter of its stored flag went down
\* by one and its stored address is not in the index entry of its stored
\* (user, torrent) pair, the entry being absent rather than empty; if it was
\* not there, nothing changed; and no peer was inserted
C4_StoppedRemovesPeer ==
    [][(AnsweredOk(last_op') /\ last_op'.event = "stopped")
       => LET h == last_op'.info_hash
              p == last_op'.peer_id
          IN  /\ h \in DOMAIN peers' => p \notin DOMAIN peers'[h]
              /\ \A g \in DOMAIN peers' :
                     /\ g \in DOMAIN peers
                     /\ DOMAIN peers'[g] \subseteq DOMAIN peers[g]
              /\ IF h \in DOMAIN peers /\ p \in DOMAIN peers[h]
                 THEN LET old == peers[h][p]
                          key == <<old.user_id, old.torrent_id>>
                      IN  /\ stats'[h].seeders
                                 = stats[h].seeders - (IF old.is_seeder THEN 1 ELSE 0)
                          /\ stats'[h].leechers
                                 = stats[h].leechers - (IF old.is_seeder THEN 0 ELSE 1)
                          /\ key \in DOMAIN user_ips'
                                 => old.ip \notin user_ips'[key] /\ user_ips'[key] # {}
                 ELSE UNCHANGED registry]_vars

\* a stopped announce emptied a swarm: before any time passed, only a
\* stopped announce removes a peer
C4_Witness ==
    /\ AnsweredOk(last_op) /\ last_op.event = "stopped"
    /\ now = 0
    /\ "h1" \in DOMAIN peers /\ DOMAIN peers["h1"] = {}
    /\ stats["h1"] = [seeders |-> 0, leechers |-> 0]
    /\ user_ips = EmptyMap

\* C5: the peer list of a response never holds the requester's own peer id,
\* whether the response is compact or a dictionary list
C5_NoSelfInPeerList ==
    last_op.op = "announce" =>
        \A k \in DOMAIN last_op.peers :
            k # last_op.peer_id /\ last_op.peers[k].peer_id # last_op.peer_id

\* a dictionary response with a peer in it, to a requester that is in the
\* swarm itself
C5_Witness ==
    /\ AnsweredOk(last_op) /\ ~last_op.compact
    /\ DOMAIN last_op.peers # {}
    /\ last_op.peer_id \in DOMAIN peers[last_op.info_hash]

----------------------------------------------------------------------------
(* Properties of the rate limiter *)

\* C6: with the window of an address opened by its first call or by the
\* first call made 60 seconds or more after the window's start, the calls
\* of a window up to the configured maximum return true and the further
\* ones false, and the call that opens a window leaves the bucket with
\* count 1 and the call's time as the window's start
C6_WindowLimit ==
    last_op.op = "check_and_increment" =>
        LET w == window[last_op.ip]
        IN  /\ last_op.allowed = (w.calls <= MaxRequestsPerMinute)
            /\ requests[last_op.ip].window_start = w.start
            /\ w.calls = 1 => requests[last_op.ip] = [count |-> 1, window_start |-> now]

\* a call that opened a second window for an address whose first window was
\* used up, while another address is still refused
C6_Witness ==
    /\ last_op.op = "check_and_increment" /\ last_op.allowed
    /\ window[last_op.ip].start >= RateWindow /\ window[last_op.ip].calls = 1
    /\ \E ip \in DOMAIN window : window[ip].start = 0 /\ window[ip].calls > MaxRequestsPerMinute

----------------------------------------------------------------------------
(* Properties of the log *)

\* the caches a fresh start computes from the log
Replayed == apply_wal_operations(EmptyCaches, replay(wal))

----------------------------------------------------------------------------
(* Properties of the announce handler's gates *)

RateLimited(ip) ==
    /\ ip \in DOMAIN requests
    /\ now - requests[ip].window_start < RateWindow
    /\ requests[ip].count >= MaxRequestsPerMinute

\* the class of the first check that fails, in the documented order
FirstFailure(req) ==
    IF req.query = "none" \/ (req.passkey # "" /\ req.info_hash = "" /\ req.peer_id = "")
        THEN "browser-access"
    ELSE IF \E name \in req.headers : name \in {"Want-Digest", "WANT-DIGEST", "want-digest"}
        THEN "suspicious-client"
    ELSE IF ~validate(req) THEN "invalid-parameter"
    ELSE IF req.passkey \notin DOMAIN user_cache THEN "invalid-passkey"
    ELSE IF ~user_cache[req.passkey].is_active THEN "user-disabled"
    ELSE IF req.info_hash \notin DOMAIN torrent_cache THEN "torrent-not-found"
    ELSE IF ~torrent_cache[req.info_hash].is_active THEN "torrent-inactive"
    ELSE IF resolved_ip(req) \in ip_blacklist THEN "ip-banned"
    ELSE IF \E entry \in client_blacklist : entry \in Substrings(req.user_agent)
        THEN "client-banned"
    ELSE IF RateLimited(resolved_ip(req)) THEN "rate-limit-exceeded"
    ELSE "ok"

\* C8: an announce is answered with the error of the first gate that fails,
\* in the order browser-access, suspicious-client, invalid-parameter,
\* invalid-passkey, user-disabled, torrent-not-found, torrent-inactive,
\* ip-banned, client-banned, rate-limit-exceeded, and an earlier failure
\* leaves the rate limiter, the last gate, unevaluated
C8_GateOrder ==
    [][last_op'.op = "announce"
       => /\ last_op'.class = FirstFailure(last_req')
          /\ last_op'.class \notin {"ok", "rate-limit-exceeded"} => UNCHANGED requests]_vars

\* a request from a banned address with a banned client, answered ip-banned,
\* after a request that the rate limiter counted: the bucket is as it was
C8_Witness ==
    /\ last_op.op = "announce" /\ last_op.class = "ip-banned"
    /\ last_req.user_agent = "FakeClient/1.0" /\ last_req.ip = BannedIP
    /\ DOMAIN requests = {"10.0.0.1"} /\ requests["10.0.0.1"].count = 1

\* C9: an announce answered with an error leaves the peer map, the swarm
\* counters and the user-IP index as they were
C9_FailureLeavesRegistry ==
    [][(last_op'.op = "announce" /\ last_op'.class # "ok") => UNCHANGED registry]_vars

\* a request refused by the rate limiter while the swarm holds a peer
C9_Witness ==
    /\ last_op.op = "announce" /\ last_op.class = "rate-limit-exceeded"
    /\ "h1" \in DOMAIN peers /\ DOMAIN peers["h1"] # {}

\* the counter an announce with this answer is counted in
CounterOf(class) ==
    IF class = "ok" THEN "successful_announces"
    ELSE IF class \in {"suspicious-client", "ip-banned", "client-banned",
                       "rate-limit-exceeded"}
    THEN "blocked_requests"
    ELSE "failed_announces"

OutcomeCounters == {"successful_announces", "failed_announces", "blocked_requests"}

\* C10: every announce adds one to exactly one of the successful, failed
\* and blocked counters: blocked for suspicious-client, ip-banned,
\* client-banned and rate-limit-exceeded, failed for the other errors,
\* successful for a peer-list response; and no counter ever goes down
C10_ExactlyOneCounter ==
    [][/\ \A c \in DOMAIN metrics : metrics'[c] >= metrics[c]
       /\ last_op'.op = "announce"
            => \A c \in OutcomeCounters :
                   metrics'[c] = metrics[c] + (IF c = CounterOf(last_op'.class) THEN 1 ELSE 0)
       /\ last_op'.op # "announce" => UNCHANGED metrics]_vars

\* an answered stopped announce and a blocked one, one count each
C10_Witness ==
    /\ metrics.successful_announces = 1 /\ metrics.blocked_requests = 1
    /\ metrics.failed_announces = 0
    /\ AnsweredOk(last_op) /\ last_op.event = "stopped"

----------------------------------------------------------------------------
(* Properties of the anti-cheat checks *)

Violations ==
    {"announce-interval-too-short", "too-many-ips", "suspicious-upload-speed",
     "suspicious-download-speed", "suspicious-ratio", "ghost-seeder"}

\* what a client and the registry see of an outcome
Visible(o) == [class |-> o.class, store |-> o.store, peers |-> o.peers, stats |-> o.stats]

\* C11: an announce for which the anti-cheat checks reported violations
\* gets the response class, the peer list and the stats, and makes the
\* registry mutation, of the same announce with nothing reported; and no
\* response carries a violation
C11_VerdictsDoNotInfluence ==
    [][last_op'.op = "announce"
       => /\ last_op'.class \notin Violations
          /\ last_op'.log # {}
               => \E existing \in existing_peer(Store, last_req'.info_hash,
                                                last_req'.peer_id,
                                                user_cache[last_req'.passkey]) :
                    Visible([class |-> last_op'.class, store |-> Store',
                             peers |-> last_op'.peers, stats |-> last_op'.stats])
                    \in {Visible(o) : o \in announce_event(last_req',
                            user_cache[last_req'.passkey],
                            torrent_cache[last_req'.info_hash], resolved_ip(last_req'),
                            metrics, requests, existing, {})}]_vars

\* an announce for which the interval, duplicate-IP and ratio checks
\* all reported a violation was answered with a peer list, and its peer is
\* registered
C11_Witness ==
    /\ AnsweredOk(last_op)
    /\ {"announce-interval-too-short", "too-many-ips", "suspicious-ratio"} \subseteq last_op.log
    /\ last_op.peer_id \in DOMAIN peers[last_op.info_hash]

----------------------------------------------------------------------------
(* Properties of the registry operations, as the handler and callers see them *)

GateErrors ==
    {"browser-access", "suspicious-client", "invalid-parameter", "invalid-passkey",
     "user-disabled", "torrent-not-found", "torrent-inactive", "ip-banned",
     "client-banned", "rate-limit-exceeded"}

\* the counters of a swarm as a response reports them: complete, incomplete
SwarmStats(info_hash) ==
    IF info_hash \in DOMAIN stats
    THEN <<stats[info_hash].seeders, stats[info_hash].leechers>>
    ELSE <<0, 0>>

\* C12: a stopped announce that passes the gates for a peer id that is not
\* registered, the swarm existing or not, is answered with an empty peer
\* list and the swarm's stats, leaves the peer map, the counters and the
\* user-IP index as they were, and is counted as successful
C12_StoppedUnregisteredIsNoOp ==
    [][(/\ last_op'.op = "announce" /\ last_op'.event = "stopped"
        /\ last_op'.class \notin GateErrors
        /\ (last_op'.info_hash \in DOMAIN peers
               => last_op'.peer_id \notin DOMAIN peers[last_op'.info_hash]))
       => /\ last_op'.class = "ok"
          /\ last_op'.peers = EmptyMap
          /\ last_op'.stats = SwarmStats(last_op'.info_hash)
          /\ UNCHANGED registry
          /\ metrics'.successful_announces = metrics.successful_announces + 1]_vars

\* a stopped announce for a peer id that is not in the swarm, which holds
\* another peer, was answered with the swarm's stats
C12_Witness ==
    /\ AnsweredOk(last_op) /\ last_op.event = "stopped"
    /\ metrics.successful_announces = 2 /\ now = 0
    /\ "h1" \in DOMAIN peers /\ DOMAIN peers["h1"] = {"pA"}
    /\ last_op.peer_id = "pB"
    /\ last_op.stats = SwarmStats("h1")

\* the counters of a swarm before it exists are zero
CountersOf(info_hash) ==
    IF info_hash \in DOMAIN stats THEN stats[info_hash] ELSE [seeders |-> 0, leechers |-> 0]

\* C13: add_peer for a peer id that is not in the swarm, the swarm existing
\* or not, adds one to the seeder counter if the peer's left is 0 and to the
\* leecher counter otherwise, and leaves the other counter; the identical
\* add repeated right after changes neither the peer map, nor the counters,
\* nor the user-IP index
C13_AddCountsOnce ==
    [][last_op'.op = "add_peer"
       => LET h == last_op'.info_hash
              p == last_op'.peer_id
              added == peers'[h][p]
          IN  /\ (h \in DOMAIN peers => p \notin DOMAIN peers[h])
                 => /\ stats'[h].seeders
                          = CountersOf(h).seeders + (IF added.left = 0 THEN 1 ELSE 0)
                    /\ stats'[h].leechers
                          = CountersOf(h).leechers + (IF added.left = 0 THEN 0 ELSE 1)
              /\ (/\ last_op.op = "add_peer" /\ last_op.info_hash = h
                  /\ last_op.peer_id = p /\ peers[h][p] = added)
                 => UNCHANGED registry]_vars

\* a seeder was added to a swarm that did not exist: it is counted once
C13_Witness ==
    /\ last_op.op = "add_peer"
    /\ DOMAIN peers = {"h1"} /\ DOMAIN peers["h1"] = {"pB"}
    /\ peers["h1"]["pB"].left = 0
    /\ stats["h1"] = [seeders |-> 1, leechers |-> 0]
    /\ DOMAIN user_ips = {<<7, 1>>}

Min(a, b) == IF a < b THEN a ELSE b

\* C14: get_peers(info_hash, numwant, exclude_peer_id) returns min(numwant, n)
\* distinct peers of the swarm, none of them exclude_peer_id, where n is the
\* number of peers of the swarm other than exclude_peer_id: nothing for
\* numwant = 0, all the others for numwant >= n, nothing for a swarm that does
\* not exist; and the complete and incomplete of a peer-list response are
\* the swarm's counters whatever numwant is
C14_QueryReturnsMin ==
    [][last_op'.op = "announce"
       => /\ \A h \in InfoHashes \cup {"h2"}, nw \in QueryNumwants, x \in WellFormedPeerIds :
                \A got \in get_peers(Store', h, nw, x) :
                    IF h \notin DOMAIN peers' THEN got = EmptyMap
                    ELSE LET rest == DOMAIN peers'[h] \ {x}
                         IN  /\ DOMAIN got \subseteq rest
                             /\ Cardinality(DOMAIN got) = Min(nw, Cardinality(rest))
                             /\ \A k \in DOMAIN got : got[k] = peers'[h][k]
          /\ (last_op'.class = "ok" /\ last_op'.event # "stopped")
             => LET h == last_op'.info_hash
                    rest == DOMAIN peers'[h] \ {last_op'.peer_id}
                IN  /\ DOMAIN last_op'.peers \subseteq rest
                    /\ Cardinality(DOMAIN last_op'.peers)
                          = Min(last_req'.numwant, Cardinality(rest))
                    /\ \A k \in DOMAIN last_op'.peers : last_op'.peers[k] = peers'[h][k]
                    /\ last_op'.stats = <<stats'[h].seeders, stats'[h].leechers>>]_vars

\* a peer asking for one peer was answered with one of the two rest
C14_Witness ==
    /\ AnsweredOk(last_op) /\ last_op.event = "" /\ last_op.peer_id = "pC"
    /\ last_req.numwant = 1
    /\ DOMAIN peers["h1"] = {"pA", "pB", "pC"}
    /\ Cardinality(DOMAIN last_op.peers) = 1
    /\ last_op.stats = SwarmStats("h1")

\* C15: update_peer and remove_peer for an info-hash that has no swarm return
\* an error and leave peer map, counters and user-IP index as they were; an
\* announce whose update_peer call fails this way is answered internal-error
C15_MissingSwarmIsError ==
    [][/\ (last_op'.op \in {"update_peer", "remove_peer"}
           /\ last_op'.info_hash \notin DOMAIN peers)
          => ~last_op'.ok /\ UNCHANGED registry
       /\ \A h \in InfoHashes, peer \in PeerArgs, e \in {"", "started", "completed"} :
              h \notin DOMAIN peers
              => \A o \in announce_event(
                            [Request("pk7", peer.peer_id, e, peer.left, peer.ip, 50, 1)
                                EXCEPT !.info_hash = h],
                            [id |-> peer.user_id, class |-> 1, is_active |-> TRUE],
                            [id |-> peer.torrent_id, is_freeleech |-> FALSE,
                             is_active |-> TRUE],
                            peer.ip, metrics, requests, {peer}, {}) :
                     /\ o.class = "internal-error" /\ o.store = Store
                     /\ o.metrics = increment(metrics, "failed_announces")]_vars

\* update_peer was called for an info-hash without a swarm and failed
C15_Witness ==
    /\ last_op.op = "update_peer" /\ ~last_op.ok
    /\ peers = EmptyMap /\ stats = EmptyMap /\ user_ips = EmptyMap

\* the peers of a swarm that are older than the timeout of the cleanup
\* just made
Expired(h) ==
    {k \in DOMAIN peers[h] :
        last_op'.current_time - peers[h][k].last_announce > last_op'.timeout}

RECURSIVE ExpiredTotal(_)
ExpiredTotal(swarms) ==
    IF swarms = {} THEN 0
    ELSE LET h == CHOOSE x \in swarms : TRUE
         IN  Cardinality(Expired(h)) + ExpiredTotal(swarms \ {h})

\* the addresses of the expired peers of a user on a torrent
ExpiredIPs(key) ==
    UNION {{peers[h][k].ip : k \in {x \in Expired(h) : <<peers[h][x].user_id,
                                                          peers[h][x].torrent_id>> = key}}
           : h \in DOMAIN peers}

\* C16: cleanup_stale_peers(timeout), nothing else running, removes from
\* every swarm exactly the peers with current_time - last_announce > timeout
\* (a peer exactly timeout old stays), returns how many it removed,
\* decrements for each removed peer the counter of its seeder flag, and
\* removes each removed peer's IP from the user-IP index, deleting the
\* entry when it becomes empty
C16_CleanupRemovesExpired ==
    [][last_op'.op = "cleanup_stale_peers"
       => /\ DOMAIN peers' = DOMAIN peers
          /\ \A h \in DOMAIN peers :
                /\ DOMAIN peers'[h] = DOMAIN peers[h] \ Expired(h)
                /\ \A k \in DOMAIN peers'[h] : peers'[h][k] = peers[h][k]
                /\ stats'[h].seeders = stats[h].seeders
                      - Cardinality({k \in Expired(h) : peers[h][k].is_seeder})
                /\ stats'[h].leechers = stats[h].leechers
                      - Cardinality({k \in Expired(h) : ~peers[h][k].is_seeder})
          /\ last_op'.removed = ExpiredTotal(DOMAIN peers)
          /\ DOMAIN user_ips' = {key \in DOMAIN user_ips : user_ips[key] \ ExpiredIPs(key) # {}}
          /\ \A key \in DOMAIN user_ips' : user_ips'[key] = user_ips[key] \ ExpiredIPs(key)]_vars

\* a cleanup removed one peer and kept the peer that was exactly timeout old
C16_Witness ==
    /\ last_op.op = "cleanup_stale_peers" /\ last_op.removed = 1
    /\ last_op.current_time = 1 /\ last_op.timeout = 0
    /\ DOMAIN peers["h1"] = {"pB"}
    /\ peers["h1"]["pB"].last_announce = 1
    /\ DOMAIN user_ips = {<<7, 1>>} /\ user_ips[<<7, 1>>] = {peers["h1"]["pB"].ip}

----------------------------------------------------------------------------
(* Properties of the log records *)

\* C17: for every operation of the four types and every value of its
\* fields, from_string of the line to_string writes gives the operation back
C17_RoundTrip ==
    [][last_op'.op = "log_operation"
       => /\ from_string(to_string(last_op'.arg)) = [ok |-> TRUE, op |-> last_op'.arg]
          /\ \A op \in WalOperation : from_string(to_string(op)) = [ok |-> TRUE, op |-> op]
          /\ last_op'.ok => /\ wal' # <<>>
                            /\ from_string(wal'[Len(wal')]).op = last_op'.arg]_vars

\* an AddUser operation was logged after another line and its line parses back
C17_Witness ==
    /\ last_op.op = "log_operation" /\ last_op.ok /\ last_op.arg.type = "AddUser"
    /\ Len(wal) = 2
    /\ from_string(wal[2]) = [ok |-> TRUE, op |-> last_op.arg]

\* the record grammar of the log: decimal numbers, 40 hex characters for an
\* info-hash, 64 for a passkey, 0 or 1 for the freeleech flag
DecimalTexts == {"0", "1", "2", "10", "20"}

Hex40Texts == {"1a1a", "1A1A", "2b2b", "2B2B"}

Hex64Texts == {"7c7c", "7C7C", "8d8d", "8D8D"}

MatchesRecord(line) ==
    \/ /\ Len(line) = 4 /\ line[1] = "ADD_TORRENT" /\ line[2] \in DecimalTexts
       /\ line[3] \in Hex40Texts /\ line[4] \in {"0", "1"}
    \/ /\ Len(line) = 2 /\ line[1] = "REMOVE_TORRENT" /\ line[2] \in Hex40Texts
    \/ /\ Len(line) = 4 /\ line[1] = "ADD_USER" /\ line[2] \in DecimalTexts
       /\ line[3] \in Hex64Texts /\ line[4] \in DecimalTexts
    \/ /\ Len(line) = 2 /\ line[1] = "REMOVE_USER" /\ line[2] \in Hex64Texts

\* the number of lines of a file that match a record format
RECURSIVE RecordCount(_)
RecordCount(file) ==
    IF file = <<>> THEN 0
    ELSE (IF MatchesRecord(Head(file)) THEN 1 ELSE 0) + RecordCount(Tail(file))

\* the records of a file, in file order
RECURSIVE Records(_)
Records(file) ==
    IF file = <<>> THEN <<>>
    ELSE IF MatchesRecord(Head(file)) THEN <<Head(file)>> \o Records(Tail(file))
    ELSE Records(Tail(file))

\* C18: replay returns, in file order, one operation for each line that
\* matches one of the four record formats and nothing for any other line:
\* blank lines and lines with an unknown tag, a wrong field count or a field
\* outside the record grammar are skipped and change nothing for the lines
\* around them
C18_ReplaySkipsMalformed ==
    last_op.op = "replay"
    => /\ Len(last_op.operations) = RecordCount(wal)
       /\ \A i \in 1..Len(last_op.operations) :
             i <= RecordCount(wal)
             => last_op.operations[i] = from_string(Records(wal)[i]).op

----------------------------------------------------------------------------
(* Properties of the admin handlers *)

CacheHandlers == {"torrent_add", "torrent_remove", "user_add", "user_remove"}

\* C19: when appending to the log fails in the torrent or user add or remove
\* handler, the request is still answered 200 and the change of the cache
\* is kept
C19_LogFailureIsSwallowed ==
    [][(last_op'.op \in CacheHandlers /\ last_op'.wal_error)
       => /\ last_op'.status = "ok"
          /\ LET a == last_op'.logged
             IN  CASE a.type = "AddTorrent" ->
                        /\ a.info_hash \in DOMAIN torrent_cache'
                        /\ torrent_cache'[a.info_hash] = Torrent_new(a.id, a.freeleech, TRUE)
                        /\ \A h \in DOMAIN torrent_cache \ {a.info_hash} :
                              h \in DOMAIN torrent_cache'
                              /\ torrent_cache'[h] = torrent_cache[h]
                        /\ user_cache' = user_cache
                   [] a.type = "RemoveTorrent" ->
                        /\ a.info_hash \in DOMAIN torrent_cache
                        /\ torrent_cache' = Del(torrent_cache, a.info_hash)
                        /\ user_cache' = user_cache
                   [] a.type = "AddUser" ->
                        /\ a.passkey \in DOMAIN user_cache'
                        /\ user_cache'[a.passkey] = User_new(a.id, a.class, TRUE)
                        /\ \A k \in DOMAIN user_cache \ {a.passkey} :
                              k \in DOMAIN user_cache' /\ user_cache'[k] = user_cache[k]
                        /\ torrent_cache' = torrent_cache
                   [] a.type = "RemoveUser" ->
                        /\ a.passkey \in DOMAIN user_cache
                        /\ user_cache' = Del(user_cache, a.passkey)
                        /\ torrent_cache' = torrent_cache]_vars

\* a torrent was added and answered 200 while nothing reached the log
C19_Witness ==
    /\ last_op.op = "torrent_add" /\ last_op.wal_error /\ last_op.status = "ok"
    /\ wal = <<>>
    /\ DOMAIN torrent_cache = {"h1"}

\* the step is one an admin endpoint can take for a request with a key
\* that is not the configured one
WrongKeyStep ==
    LET k == "wrong"
    IN  \/ \E h \in HexTexts, f \in {0, 2} : torrent_add_handler(k, 10, h, f)
        \/ \E h \in HexTexts : torrent_remove_handler(k, h)
        \/ \E pk \in HexTexts, c \in {1, 2} : user_add_handler(k, 20, pk, c)
        \/ \E pk \in HexTexts : user_remove_handler(k, pk)
        \/ reload_handler(k)
        \/ \E ip \in SentIPs : ip_ban_handler(k, ip) \/ ip_unban_handler(k, ip)
        \/ \E c \in SentClients : client_ban_handler(k, c) \/ client_unban_handler(k, c)
        \/ ip_list_handler(k) \/ client_list_handler(k)
        \/ metrics_handler(k) \/ update_handler(k)

\* C20: an admin request with an api_key that is not the configured key is
\* answered 401 and has no effect: torrent cache, user cache, IP blacklist,
\* client blacklist, log and peer registry are unchanged, whatever the
\* endpoint (torrent and user add and remove, reload, ip and client ban,
\* unban and list, metrics, update)
C20_WrongKeyHasNoEffect ==
    [][WrongKeyStep
       => /\ last_op'.status = "invalid-api-key"
          /\ UNCHANGED <<torrent_cache, user_cache, ip_blacklist, client_blacklist, wal,
                         registry>>]_vars

\* a reload with a wrong key was refused while the caches, the blacklists
\* and the log had content
C20_Witness ==
    /\ last_op.op = "reload" /\ last_op.status = "invalid-api-key"
    /\ torrent_cache # EmptyMap /\ user_cache # EmptyMap
    /\ ip_blacklist # {} /\ client_blacklist # {}
    /\ wal # <<>>

----------------------------------------------------------------------------
(* Properties of reload and of startup                                    *)

\* an API torrent record is cached when its info_hash is 40 hex digits
ValidApiTorrents ==
    {t \in ApiTorrents : hex_decode(t.info_hash).ok /\ hex_decode(t.info_hash).len = 20}

\* an API user record is cached when its passkey has 32 characters
ValidApiUsers == {u \in ApiUsers : u.len = 32}

\* the caches hold the valid API records and nothing else
CachesAreApiData(torrents, users) ==
    /\ \A t \in ValidApiTorrents :
          /\ hex_decode(t.info_hash).bytes \in DOMAIN torrents
          /\ torrents[hex_decode(t.info_hash).bytes]
                = [id |-> t.id, is_freeleech |-> t.is_freeleech, is_active |-> TRUE]
    /\ \A h \in DOMAIN torrents :
          \E t \in ValidApiTorrents : hex_decode(t.info_hash).bytes = h
    /\ \A u \in ValidApiUsers :
          /\ u.passkey \in DOMAIN users
          /\ users[u.passkey]
                = [id |-> u.id, class |-> u.user_class_id,
                   is_active |-> (u.can_download /\ ~u.security_locked)]
    /\ \A k \in DOMAIN users : \E u \in ValidApiUsers : u.passkey = k

\* a reload answered with success
ReloadOk == Reload /\ last_op'.status = "ok"

ReloadFailed == Reload /\ last_op'.status = "external-api-error"

\* C22: when the external API fetch fails during a reload the operator gets
\* an error (HTTP 500), both caches are left empty, neither partly populated
\* nor restored, and the log is left as it was.
C22_FailedReloadLeavesCachesCleared ==
    [][ReloadFailed =>
        /\ into_response(last_op'.status) = 500
        /\ torrent_cache' = EmptyMap
        /\ user_cache' = EmptyMap
        /\ wal' = wal]_vars

\* a failed reload has emptied the caches and kept the line in the log
C22_Witness ==
    /\ last_op.op = "reload"
    /\ last_op.status = "external-api-error"
    /\ torrent_cache = EmptyMap
    /\ user_cache = EmptyMap
    /\ Len(wal) = 1

\* the operations of the log that are about info_hash h
TorrentOps(ops, h) ==
    {i \in 1..Len(ops) : /\ ops[i].type \in {"AddTorrent", "RemoveTorrent"}
                         /\ ops[i].info_hash = h}

\* the operations of the log that are about passkey k
UserOps(ops, k) ==
    {i \in 1..Len(ops) : /\ ops[i].type \in {"AddUser", "RemoveUser"}
                         /\ ops[i].passkey = k}

Last(indices) == CHOOSE i \in indices : \A j \in indices : j <= i

\* the torrent cache holds under h what the last log operation on h left
TorrentAsLogged(torrents, ops, h) ==
    IF TorrentOps(ops, h) = {} \/ ops[Last(TorrentOps(ops, h))].type = "RemoveTorrent"
    THEN h \notin DOMAIN torrents
    ELSE /\ h \in DOMAIN torrents
         /\ torrents[h] = [id |-> ops[Last(TorrentOps(ops, h))].id,
                           is_freeleech |-> ops[Last(TorrentOps(ops, h))].freeleech,
                           is_active |-> TRUE]

\* the user cache holds under k what the last log operation on k left
UserAsLogged(users, ops, k) ==
    IF UserOps(ops, k) = {} \/ ops[Last(UserOps(ops, k))].type = "RemoveUser"
    THEN k \notin DOMAIN users
    ELSE /\ k \in DOMAIN users
         /\ users[k] = [id |-> ops[Last(UserOps(ops, k))].id,
                        class |-> ops[Last(UserOps(ops, k))].class,
                        is_active |-> TRUE]

ApiHashes == {hex_decode(t.info_hash).bytes : t \in ValidApiTorrents}

ApiPasskeys == {u.passkey : u \in ValidApiUsers}

\* the caches hold the valid API records, and under every other key what the
\* log left
ApiOverLog(torrents, users, ops) ==
    /\ \A t \in ValidApiTorrents :
          /\ hex_decode(t.info_hash).bytes \in DOMAIN torrents
          /\ torrents[hex_decode(t.info_hash).bytes]
                = [id |-> t.id, is_freeleech |-> t.is_freeleech, is_active |-> TRUE]
    /\ \A u \in ValidApiUsers :
          /\ u.passkey \in DOMAIN users
          /\ users[u.passkey]
                = [id |-> u.id, class |-> u.user_class_id,
                   is_active |-> (u.can_download /\ ~u.security_locked)]
    /\ \A h \in (WellFormedHashes \cup DOMAIN torrents) \ ApiHashes :
          TorrentAsLogged(torrents, ops, h)
    /\ \A k \in (WellFormedPasskeys \cup DOMAIN users) \ ApiPasskeys :
          UserAsLogged(users, ops, k)

\* the caches hold what the log left and nothing else
LogAlone(torrents, users, ops) ==
    /\ \A h \in WellFormedHashes \cup DOMAIN torrents : TorrentAsLogged(torrents, ops, h)
    /\ \A k \in WellFormedPasskeys \cup DOMAIN users : UserAsLogged(users, ops, k)
    /\ [torrents |-> torrents, users |-> users]
         = apply_wal_operations(EmptyCaches, replay(wal))

\* a start that reached the spawn of the reaper
Started == Startup /\ last_op'.status = "ok"

\* C23: at startup the log operations are applied in log order before the
\* API entities are overlaid: under a key the API returns the API record is
\* cached, under any other key what the last log operation on it left; and
\* when the fetch fails startup goes on with the caches of the log alone.
C23_LogThenApi ==
    [][Started =>
        IF last_op'.api_ok
        THEN ApiOverLog(torrent_cache', user_cache', replay(wal))
        ELSE LogAlone(torrent_cache', user_cache', replay(wal))]_vars

\* a start whose log added torrent h1 and then removed it: the API record of
\* h1, with the id the API gave, is the one cached
C23_Witness ==
    /\ last_op.op = "startup"
    /\ last_op.status = "ok"
    /\ last_op.api_ok
    /\ Len(wal) = 2
    /\ replay(wal)[1].type = "AddTorrent"
    /\ replay(wal)[1].info_hash = "h1"
    /\ replay(wal)[2].type = "RemoveTorrent"
    /\ torrent_cache["h1"].id = 1

\* a start whose fetch failed: the caches are those of the log
C23_WitnessFetchFailed ==
    /\ last_op.op = "startup"
    /\ last_op.status = "ok"
    /\ ~last_op.api_ok
    /\ Len(wal) = 2
    /\ DOMAIN user_cache = {"pk8"}

----------------------------------------------------------------------------
(* The existing peer of an announce *)

\* the record stored under (info_hash, peer_id) when it belongs to the user,
\* as a set of at most one peer
OwnRecord(st, info_hash, peer_id, user) ==
    IF /\ info_hash \in DOMAIN st.peers
       /\ peer_id \in DOMAIN st.peers[info_hash]
       /\ st.peers[info_hash][peer_id].user_id = user.id
    THEN {st.peers[info_hash][peer_id]}
    ELSE {}

\* C24: for a non-stopped announce that passes the gates the existing peer
\* is the record stored under the requester's own (info_hash, peer_id) for
\* the authenticated user: the registry is changed by update_peer when that
\* record exists and by add_peer otherwise, and the interval and speed checks
\* report what they report on the last-announce time and the byte counters
\* of that record.
C24_ExistingPeerIsOwnRecord ==
    [][(AnsweredOk(last_op') /\ last_op'.event # "stopped")
       => LET req == last_req'
              user == user_cache[req.passkey]
              torrent == torrent_cache[req.info_hash]
              own == OwnRecord(Store, req.info_hash, req.peer_id, user)
          IN  /\ last_op'.log = anti_cheat(req, user, torrent, own)
              /\ Visible([class |-> last_op'.class, store |-> Store',
                          peers |-> last_op'.peers, stats |-> last_op'.stats])
                 \in {Visible(o) : o \in announce_event(req, user, torrent,
                          resolved_ip(req), metrics, requests, own, {})}]_vars

----------------------------------------------------------------------------
(* Properties of calls made in parallel *)

\* the calls of the tasks made one at a time in the order given: the map
\* they leave and what each returned
RECURSIVE RunLimiter(_, _)
RunLimiter(reqs, order) ==
    IF order = <<>> THEN [requests |-> reqs, results |-> EmptyMap]
    ELSE LET c == tasks[Head(order)]
             r == check_and_increment(reqs, c.ip, c.current_time)
             rest == RunLimiter(r.requests, Tail(order))
         IN  [requests |-> rest.requests,
              results |-> Put(rest.results, Head(order), r.allowed)]

\* the calls in flight, which are all for one address
Calls == DOMAIN tasks

CallIp == tasks[CHOOSE t \in Calls : TRUE].ip

Allowed == {t \in Calls : tasks[t].result}

\* C27: calls of check_and_increment made in parallel for one address
\* behave as if made one at a time: the map they leave and what they
\* returned are those of some serial order; no increment is lost; of N calls
\* that fall in one window min(N, max) return true; and calls racing on an
\* expired window start one new window whose count includes them all.
C27_CallsSerialize ==
    AllDone =>
        LET before == last_op.before
            ip == CallIp
            n == Cardinality(Calls)
        IN  /\ \E o \in Orders(Calls) :
                  /\ RunLimiter(before, o).requests = requests
                  /\ \A t \in Calls : RunLimiter(before, o).results[t] = tasks[t].result
            /\ ip \notin DOMAIN before
                  => /\ requests[ip].count = n
                     /\ Cardinality(Allowed) = Min(n, MaxRequestsPerMinute)
            /\ (/\ ip \in DOMAIN before
                /\ \A t \in Calls :
                      tasks[t].current_time - before[ip].window_start >= RateWindow)
                  => /\ requests[ip].count = n
                     /\ requests[ip].window_start \in {tasks[t].current_time : t \in Calls}
                     /\ Cardinality(Allowed) = Min(n, MaxRequestsPerMinute)
            /\ (/\ ip \in DOMAIN before
                /\ \A t \in Calls :
                      tasks[t].current_time - before[ip].window_start < RateWindow)
                  => /\ requests[ip] = [count |-> before[ip].count + n,
                                        window_start |-> before[ip].window_start]
                     /\ Cardinality(Allowed)
                          = Cardinality({k \in 1..n :
                                before[ip].count + k <= MaxRequestsPerMinute})

\* calls that raced on a window that was over: one new window, all counted
C27_Witness ==
    /\ AllDone
    /\ CallIp \in DOMAIN last_op.before
    /\ last_op.before[CallIp].window_start = 0
    /\ requests[CallIp].window_start >= RateWindow
    /\ requests[CallIp].count = Cardinality(Calls)
    /\ Cardinality(Calls) > 1
    /\ Allowed # {}

\* the registry calls of the tasks made one at a time in the order given
RECURSIVE RunStore(_, _)
RunStore(st, order) ==
    IF order = <<>> THEN st
    ELSE LET c == tasks[Head(order)]
             r == CASE c.op = "add_peer" -> add_peer(st, c.info_hash, c.peer)
                    [] c.op = "update_peer" -> update_peer(st, c.info_hash, c.peer_id, c.peer)
                    [] c.op = "remove_peer" -> remove_peer(st, c.info_hash, c.peer_id)
         IN  RunStore(r.store, Tail(order))

\* C25: add, update and remove called in parallel on one peer id of one
\* swarm take effect as if made in some serial order: when all have
\* returned, the peer map, the counters and the user-IP index are those that
\* one order of the calls leaves.
C25_RegistryCallsSerialize ==
    AllDone => \E o \in Orders(DOMAIN tasks) : RunStore(last_op.before, o) = Store

\* the announce handled beside the reaper pass registered or rewrote a peer
Rewritten ==
    /\ "announce" \in DOMAIN tasks
    /\ tasks["announce"].op \in {"add_peer", "update_peer"}
    /\ tasks["announce"].ok

\* C26: the reaper pass is safe beside announces: a peer whose record an
\* announce rewrote with a fresh last_announce while the pass was running is
\* not evicted by the pass, and once the pass and the announce have finished
\* the counters of every swarm are the numbers of seeders and leechers in
\* its map.
C26_ReaperSafeBesideAnnounce ==
    (AllDone /\ "reaper" \in DOMAIN tasks) =>
        /\ Rewritten =>
              LET c == tasks["announce"]
              IN  /\ c.peer_id \in DOMAIN peers[c.info_hash]
                  /\ peers[c.info_hash][c.peer_id] = c.peer
        /\ \A h \in DOMAIN peers :
              /\ stats[h].seeders = Cardinality(StoredSeeders(h))
              /\ stats[h].leechers = Cardinality(DOMAIN peers[h] \ StoredSeeders(h))

----------------------------------------------------------------------------
(* The reaper under fair scheduling                                        *)

\* the times of the model's clock after which it still passes the timeout
ReapableTimes ==
    {t \in {k * TickStep : k \in 0..MaxTicks} : t + PeerTimeout < MaxTicks * TickStep}

\* peer_id is registered with its last announce at time t
StoppedAt(peer_id, t) ==
    /\ "h1" \in DOMAIN peers
    /\ peer_id \in DOMAIN peers["h1"]
    /\ peers["h1"][peer_id].last_announce = t

\* the peers of a swarm a pass at the present time finds stale
Overdue(h) == {k \in DOMAIN peers[h] : now - peers[h][k].last_announce > PeerTimeout}

OverdueIPs(key) ==
    UNION {{peers[h][k].ip : k \in {x \in Overdue(h) : <<peers[h][x].user_id,
                                                          peers[h][x].torrent_id>> = key}}
           : h \in DOMAIN peers}

\* a pass of the reaper removes every peer whose last announce is more than
\* peer_timeout old, with its counter contribution and its user-IP entry
ReapStep ==
    [][last_op'.op = "reap"
       => \A h \in DOMAIN peers :
             /\ DOMAIN peers'[h] = DOMAIN peers[h] \ Overdue(h)
             /\ stats'[h].seeders = stats[h].seeders
                   - Cardinality({k \in Overdue(h) : peers[h][k].is_seeder})
             /\ stats'[h].leechers = stats[h].leechers
                   - Cardinality({k \in Overdue(h) : ~peers[h][k].is_seeder})
             /\ \A key \in DOMAIN user_ips :
                   IF user_ips[key] \ OverdueIPs(key) = {}
                   THEN key \notin DOMAIN user_ips'
                   ELSE user_ips'[key] = user_ips[key] \ OverdueIPs(key)]_vars

\* the loop has no exit: a pass can run whenever the last step was not a pass
ReaperRuns == [](last_op.op # "reap" => ENABLED Reap)

\* C28: with the reaper's tick and the clock scheduled fairly, a peer that
\* stops announcing without a stopped event is eventually removed, with its
\* counter contribution and its user-IP entry, by the first pass of the
\* reaper that runs with current_time - last_announce > peer_timeout, and
\* the reaper never stops running
C28_SilentPeerIsReaped ==
    /\ \A peer_id \in PeerIds : \A t \in ReapableTimes :
          StoppedAt(peer_id, t) ~> ~StoppedAt(peer_id, t)
    /\ ReapStep
    /\ ReaperRuns

\* a pass has just removed a peer that had announced once and fallen silent
C28_Witness ==
    /\ last_op.op = "reap" /\ last_op.removed >= 1
    /\ now > PeerTimeout
    /\ "h1" \in DOMAIN peers /\ peers["h1"] = EmptyMap

----------------------------------------------------------------------------
(* Properties of fetch_data                                                *)

Fetch == tasks["fetch"]

RECURSIVE Concat(_)
Concat(seqs) == IF seqs = <<>> THEN <<>> ELSE Head(seqs) \o Concat(Tail(seqs))

EmptyPage(resp) == resp.kind = "ok" /\ resp.torrents = <<>> /\ resp.users = <<>>

FullPage(resp) == resp.kind = "ok" /\ ~EmptyPage(resp)

\* what a call has done so far, and how it returned
FetchShape ==
    \A t \in DOMAIN tasks :
        LET c == tasks[t]
            n == Len(c.responses)
        IN  \* at most the cap of requests, all but the last answered with a
            \* page that carries something
            /\ n <= MaxPages
            /\ \A i \in 1..(n - 1) : FullPage(c.responses[i])
            /\ c.pc = "loop" => /\ c.page = n + 1
                                /\ \A i \in 1..n : FullPage(c.responses[i])
            \* Ok: the last page was empty, the result is the earlier pages
            /\ c.result = "Ok" =>
                  /\ n >= 1 /\ EmptyPage(c.responses[n])
                  /\ c.all_torrents = Concat([i \in 1..(n - 1) |-> c.responses[i].torrents])
                  /\ c.all_users = Concat([i \in 1..(n - 1) |-> c.responses[i].users])
            \* an answer that is no page ends the call with an error
            /\ (n >= 1 /\ c.responses[n].kind # "ok") => c.result = "Err"
            /\ (n >= 1 /\ EmptyPage(c.responses[n])) => c.result = "Ok"
            /\ c.result = "Err" =>
                  \/ c.responses[n].kind # "ok"
                  \/ n = MaxPages /\ FullPage(c.responses[n])

\* the requests are for the pages 1, 2, ... in order
FetchOrder ==
    [][last_op'.op = "request" => last_op'.page = Len(tasks["fetch"].responses) + 1]_vars

\* C29: fetch_data terminates whatever the external API answers: it asks for
\* the pages 1, 2, ... in order, stops at the first page whose torrents and
\* users are both empty and returns the concatenation of the earlier pages,
\* sends at most the cap of requests, and stops with an error at the first
\* failed or non-success answer
C29_FetchTerminates ==
    /\ (tasks # EmptyMap /\ ~AllDone) ~> AllDone
    /\ []FetchShape
    /\ FetchOrder

\* a call returned the data of the pages before the empty last page the cap
\* allows
C29_Witness ==
    /\ tasks # EmptyMap /\ Fetch.result = "Ok"
    /\ Len(Fetch.responses) = MaxPages
    /\ Len(Fetch.all_torrents) >= 2 /\ Len(Fetch.all_users) >= 1

\* a call gave up after the cap of pages, all of them carrying something
C29_WitnessCap ==
    /\ tasks # EmptyMap /\ Fetch.result = "Err"
    /\ Len(Fetch.responses) = MaxPages
    /\ FullPage(Fetch.responses[MaxPages])

----------------------------------------------------------------------------
(* The sweep of the rate limiter                                           *)

\* a window is over current_time - window_start >= 60 after its start
WindowOver(entry, current_time) == current_time - entry.window_start >= RateWindow

\* the swept limiter holds the windows of the unswept one, all but some
\* that are over
SweptAgrees ==
    /\ DOMAIN requests \subseteq DOMAIN window
    /\ \A ip \in DOMAIN window :
          IF ip \in DOMAIN requests THEN requests[ip] = window[ip]
          ELSE WindowOver(window[ip], now)

\* a sweep removes the windows that are over and nothing else
SweepStep ==
    [][last_op'.op = "cleanup_old_entries"
       => /\ DOMAIN requests' = {ip \in DOMAIN requests : ~WindowOver(requests[ip], now)}
          /\ \A ip \in DOMAIN requests' : requests'[ip] = requests[ip]]_vars

\* C30: with max_requests_per_minute >= 1 and timestamps that never go back,
\* calls of cleanup_old_entries put anywhere between the calls of
\* check_and_increment change no return value of check_and_increment, and a
\* sweep removes only entries whose window is over
\* (now - window_start >= 60)
C30_SweepChangesNoAnswer ==
    /\ [](MaxRequestsPerMinute >= 1 =>
            /\ last_op.op = "check_and_increment" => last_op.allowed = last_op.unswept
            /\ SweptAgrees)
    /\ SweepStep

\* a call found its entry swept away and was answered as without the sweep
C30_Witness ==
    /\ last_op.op = "check_and_increment" /\ last_op.evicted
    /\ last_op.allowed /\ last_op.unswept
    /\ requests[last_op.ip] = [count |-> 1, window_start |-> now]

\* a call was refused in a window that began after a sweep, beside an
\* address whose entry is swept away
C30_WitnessRefused ==
    /\ last_op.op = "check_and_increment" /\ ~last_op.allowed
    /\ requests[last_op.ip].window_start > 0
    /\ requests[last_op.ip].count > MaxRequestsPerMinute
    /\ \E ip \in DOMAIN window : ip \notin DOMAIN requests

----------------------------------------------------------------------------
(* The counters as unsigned numbers *)

\* an AtomicU32 that did not wrap below zero and is at most n; the values
\* below zero of the model stand for the u32 values from 2^31 up
AtMost(counter, n) == 0 <= counter /\ counter <= n

\* C31: the seeder and leecher counters never wrap below zero: after any
\* sequence of add, update, remove and cleanup calls, an update of a peer id
\* that is not in the swarm followed by its removal included, each counter is
\* at most the number of peers in the swarm
C31_CountersNeverWrap ==
    \A info_hash \in DOMAIN stats :
        /\ AtMost(stats[info_hash].seeders, Cardinality(DOMAIN peers[info_hash]))
        /\ AtMost(stats[info_hash].leechers, Cardinality(DOMAIN peers[info_hash]))

----------------------------------------------------------------------------
(* The peers of other users *)

\* the peer ids of the swarm stored for another user than user_id
PeersOfOthers(info_hash, user_id) ==
    IF info_hash \in DOMAIN peers
    THEN {k \in DOMAIN peers[info_hash] : peers[info_hash][k].user_id # user_id}
    ELSE {}

\* C32: an announce authenticated as user U never removes, replaces or
\* alters a peer record stored for another user V: whatever its event and
\* its peer id, the records of the other users in the swarm and their
\* user-IP entries are after the announce what they were before
C32_AnnounceKeepsOthersPeers ==
    [][last_op'.op = "announce"
       => LET U == user_cache[last_req'.passkey].id
              h == last_req'.info_hash
          IN  /\ \A k \in PeersOfOthers(h, U) :
                    k \in DOMAIN peers'[h] /\ peers'[h][k] = peers[h][k]
              /\ \A key \in DOMAIN user_ips :
                    key[1] # U => key \in DOMAIN user_ips' /\ user_ips'[key] = user_ips[key]]_vars

----------------------------------------------------------------------------
(* A stopped announce beside the reaper pass *)

\* the announce handled beside the pass removes a peer that was registered
\* and stale when both began
RemovesStalePeer ==
    /\ AllDone /\ "reaper" \in DOMAIN tasks /\ last_op.op = "spawn"
    /\ tasks["announce"].op = "remove_peer"
    /\ "h1" \in DOMAIN last_op.before.peers
    /\ tasks["announce"].peer_id
          \in stale_peers(last_op.before.peers["h1"], PeerTimeout, now)

\* C33: when a remove and a reaper pass race on the same stale peer, the
\* peer's counter is decremented once and its address leaves the index once,
\* and the pass counts the peer in its return value only if the pass itself
\* took it out of the map: the registry and the return value are those of
\* the remove made before the pass, or of the pass made before the remove
C33_StalePeerRemovedOnce ==
    RemovesStalePeer =>
        LET before == last_op.before
            p      == tasks["announce"].peer_id
            first  == cleanup_stale_peers(remove_peer(before, "h1", p).store, PeerTimeout, now)
            pass   == cleanup_stale_peers(before, PeerTimeout, now)
            second == remove_peer(pass.store, "h1", p).store
        IN  \/ Store = first.store /\ tasks["reaper"].removed = first.removed
            \/ Store = second /\ tasks["reaper"].removed = pass.removed

----------------------------------------------------------------------------
(* The user-IP index beside a removal *)

\* the pass evicted a peer of the user while an announce registered or
\* rewrote another peer of that user, which is stored when both have finished
SurvivorBesideEviction ==
    /\ AllDone /\ "reaper" \in DOMAIN tasks /\ last_op.op = "spawn"
    /\ tasks["reaper"].removed >= 1
    /\ Rewritten
    /\ "h1" \in DOMAIN last_op.before.peers
    /\ tasks["announce"].peer_id
          \notin stale_peers(last_op.before.peers["h1"], PeerTimeout, now)
    /\ tasks["announce"].peer_id \in DOMAIN peers["h1"]
    /\ peers["h1"][tasks["announce"].peer_id] = tasks["announce"].peer

\* C34: when the removal of one peer runs beside an add or update of
\* another peer of the same user and torrent, then after both have finished
\* the user-IP entry of that user and torrent exists and holds the address
\* of the surviving peer
C34_IndexKeepsSurvivor ==
    SurvivorBesideEviction =>
        LET peer == tasks["announce"].peer
            key  == <<peer.user_id, peer.torrent_id>>
        IN  key \in DOMAIN user_ips /\ peer.ip \in user_ips[key]

----------------------------------------------------------------------------
(* Admin mutations made in parallel *)

\* the record of the key in a cache, or its absence
RecordOf(cache, key) == IF key \in DOMAIN cache THEN <<cache[key]>> ELSE <<>>

\* both requests changed the cache and appended to the log
BothLogged ==
    /\ AllDone /\ last_op.op = "spawn"
    /\ \A t \in DOMAIN tasks :
          tasks[t].op \in {"torrent_add", "torrent_remove"}
          /\ tasks[t].status = "ok" /\ ~tasks[t].wal_error

\* C35: when two admin mutations of one key run in parallel, two adds with
\* different values or an add and a remove, then after both have returned a
\* replay of the log into empty caches gives for the key the record, or the
\* absence, that the live cache holds
C35_ParallelMutationsReplay ==
    BothLogged =>
        RecordOf(Replayed.torrents, hex_decode("1a1a").bytes)
            = RecordOf(torrent_cache, hex_decode("1a1a").bytes)

----------------------------------------------------------------------------
(* The source address of an announce *)

\* what the handler does with a request does not depend on the socket
\* address when the request carries a valid `ip` parameter
SocketPlaysNoPart ==
    \A req \in SourceRequests : \A a \in SourceAddrs :
        req.ip # "absent" =>
            announce_handler([req EXCEPT !.addr = a]) = announce_handler(req)

\* the bucket count of an address
BucketCount(reqs, ip) == IF ip \in DOMAIN reqs THEN reqs[ip].count ELSE 0

\* an announce with the parameter is judged, counted and stored under the
\* parameter's value
ParameterIsSource ==
    [][(last_op'.op = "announce" /\ last_req'.ip # "absent")
       => LET ip == last_req'.ip
          IN  /\ (last_op'.class = "ip-banned") = (ip \in ip_blacklist)
              /\ \A a \in DOMAIN requests' \ {ip} :
                    BucketCount(requests', a) = BucketCount(requests, a)
              /\ ip \notin ip_blacklist =>
                    ip \in DOMAIN requests' /\
                    (BucketCount(requests', ip) = BucketCount(requests, ip) + 1
                        \/ requests'[ip] = [count |-> 1, window_start |-> now])
              /\ last_op'.class = "ok" => peers'["h1"]["pA"].ip = ip]_vars

\* C36: the blacklist check, the rate-limit bucket and the address stored in
\* the peer record use the resolved source address only: when the announce
\* carries a valid `ip` parameter that value is used and the socket address
\* plays no part, so the ban and rate-limit decisions for a client depend
\* only on the `ip` value it sends
C36_SourceIsIpParameter == []SocketPlaysNoPart /\ ParameterIsSource

\* an announce from the banned socket address that names another address
\* was accepted and registered under the address it named
C36_Witness ==
    /\ last_op.op = "announce" /\ last_op.class = "ok"
    /\ last_req.addr = BannedIP /\ last_req.ip = "10.0.0.2"
    /\ peers["h1"]["pA"].ip = "10.0.0.2"
    /\ "10.0.0.2" \in DOMAIN requests /\ BannedIP \notin DOMAIN requests

----------------------------------------------------------------------------
(* The rate limiter's map under rejected announces *)

\* the answers of the checks made before the rate limiter
EarlyRejections ==
    {"browser-access", "suspicious-client", "invalid-parameter", "invalid-passkey",
     "user-disabled", "torrent-not-found", "torrent-inactive", "ip-banned",
     "client-banned"}

\* the bucket of an address was counted by this step: one more request in
\* its window, or the first request of a new window
Counted(ip) ==
    /\ ip \in DOMAIN requests'
    /\ \/ /\ requests'[ip].count = BucketCount(requests, ip) + 1
          /\ ip \in DOMAIN requests => requests'[ip].window_start = requests[ip].window_start
       \/ requests'[ip] = [count |-> 1, window_start |-> now]
    /\ \A a \in DOMAIN requests' \ {ip} : a \in DOMAIN requests /\ requests'[a] = requests[a]

\* C37: an announce rejected at a step before the rate-limit check
\* (browser-access, suspicious-client, invalid-parameter, invalid-passkey,
\* user-disabled, torrent-not-found, torrent-inactive, ip-banned,
\* client-banned) neither creates nor increments the bucket of its source
\* address, and every announce that reaches the rate-limit check is counted,
\* accepted or rejected
C37_OnlyReachingAnnouncesCounted ==
    [][last_op'.op = "announce"
       => /\ last_op'.class \in EarlyRejections => requests' = requests
          /\ FirstFailure(last_req') \notin EarlyRejections
                => Counted(resolved_ip(last_req'))
          /\ last_op'.class \notin EarlyRejections
                => Counted(resolved_ip(last_req'))]_vars

\* an announce of the inactive torrent, rejected, from the address whose one
\* earlier announce was counted: the bucket still counts one
C37_Witness ==
    /\ last_op.op = "announce" /\ last_op.class = "torrent-inactive"
    /\ resolved_ip(last_req) = "10.0.0.1"
    /\ DOMAIN requests = {"10.0.0.1"} /\ requests["10.0.0.1"].count = 1

\* an announce refused by the rate limiter, and counted
C37_WitnessRefused ==
    /\ last_op.op = "announce" /\ last_op.class = "rate-limit-exceeded"
    /\ requests[resolved_ip(last_req)].count = MaxRequestsPerMinute + 1

----------------------------------------------------------------------------
(* The registry under the admin operations *)

AdminOperations ==
    {"torrent_add", "torrent_remove", "user_add", "user_remove", "reload",
     "ip_ban", "ip_unban", "client_ban", "client_unban"}

\* a peer of the registry is no longer in it after the step
PeerGone ==
    \E h \in DOMAIN peers : \E p \in DOMAIN peers[h] :
        h \notin DOMAIN peers' \/ p \notin DOMAIN peers'[h]

\* C38: the admin operations (torrent add and remove, user add and remove,
\* reload, blacklist edits) never change the peer registry: removing a
\* torrent or a user, or clearing the caches, leaves the peers, the counters
\* and the user-IP entries of the swarms in place, until a stopped announce
\* or the reaper removes them
C38_AdminLeavesRegistry ==
    [][/\ last_op'.op \in AdminOperations => UNCHANGED registry
       /\ PeerGone => \/ last_op'.op = "reap"
                      \/ last_op'.op = "announce" /\ last_op'.event = "stopped"]_vars

\* the torrent was removed from the cache while its swarm holds a peer, its
\* counters and the user's address
C38_Witness ==
    /\ last_op.op = "torrent_remove" /\ last_op.status = "ok"
    /\ "h1" \notin DOMAIN torrent_cache
    /\ "h1" \in DOMAIN peers /\ DOMAIN peers["h1"] # {}
    /\ "h1" \in DOMAIN stats /\ stats["h1"].leechers = 1
    /\ \E k \in DOMAIN user_ips : user_ips[k] # {}

\* the caches were cleared by a reload that failed while a swarm holds a peer
C38_WitnessCleared ==
    /\ last_op.op = "reload" /\ torrent_cache = EmptyMap /\ user_cache = EmptyMap
    /\ "h1" \in DOMAIN peers /\ DOMAIN peers["h1"] # {}

\* the reaper evicted the peers of a torrent that is no longer in the cache
C38_WitnessReaped ==
    /\ last_op.op = "reap" /\ last_op.removed > 0
    /\ "h1" \notin DOMAIN torrent_cache

----------------------------------------------------------------------------
(* The swarm map and the counter map *)

\* a call found the swarm and then no counters for it
StatsNotFound(t) == "err" \in DOMAIN tasks[t] /\ tasks[t].err = "Stats not found"

\* the swarms and the counter pairs are under the same keys
SameKeys == DOMAIN peers = DOMAIN stats

\* C39 as stated: in every reachable state, also under concurrent
\* operations, the info-hashes that have a swarm map are those that have a
\* counter pair
C39_KeysEqualInEveryState == SameKeys

\* C39: the info-hashes that have a swarm map are those that have a counter
\* pair in every state in which no add_peer stands between its entry call on
\* the swarm map and its entry call on the counter map, where it holds the
\* exclusive guard of the swarm; a swarm entry once created is never removed
\* (an emptied swarm stays); and update_peer, remove_peer and the reaper
\* never meet a swarm without counters
C39_KeysEqualOutsideAddPeer ==
    /\ [](\/ SameKeys
          \/ /\ DOMAIN stats \subseteq DOMAIN peers
             /\ \E t \in DOMAIN tasks :
                   /\ tasks[t].op = "add_peer" /\ tasks[t].pc = "stats"
                   /\ DOMAIN peers \ DOMAIN stats = {tasks[t].info_hash}
                   /\ <<"peers", "w">> \in Guards(tasks[t]))
    /\ [](\A t \in DOMAIN tasks : ~StatsNotFound(t))
    /\ [][DOMAIN peers \subseteq DOMAIN peers' /\ DOMAIN stats \subseteq DOMAIN stats']_vars

\* add_peer has created the swarm and not yet the counters, while an update
\* and the reaper wait for the swarm's guard
C39_Witness ==
    /\ DOMAIN peers = {"h1"} /\ DOMAIN stats = {}
    /\ \E t, u, v \in DOMAIN tasks :
          /\ tasks[t].op = "add_peer" /\ tasks[t].pc = "stats"
          /\ tasks[u].op = "update_peer" /\ tasks[u].pc = "start"
          /\ tasks[v].op = "cleanup_stale_peers" /\ tasks[v].pc = "next"

\* the calls are over: the swarm was emptied by the reaper and by
\* remove_peer, and it is still there with its counters
C39_WitnessEmptied ==
    /\ AllDone
    /\ "h1" \in DOMAIN last_op.before.peers /\ last_op.before.peers["h1"] # EmptyMap
    /\ DOMAIN peers = {"h1"} /\ peers["h1"] = EmptyMap /\ DOMAIN stats = {"h1"}
    /\ \E t \in DOMAIN tasks : tasks[t].op = "remove_peer" /\ tasks[t].ok

----------------------------------------------------------------------------
(* The order of the guards *)

\* the place of a map in the order the guards are taken in
Rank(map) ==
    CASE map = "peers" -> 1 [] map = "stats" -> 2 [] map = "user_ips" -> 3 [] OTHER -> 4

\* a call that waits for a guard holds guards of earlier maps only
GuardsInOrder ==
    \A t \in DOMAIN tasks : \A g \in Guards(tasks[t]) :
        Acquires(tasks[t]) # NoGuard => Rank(g[1]) < Rank(Acquires(tasks[t])[1])

\* while a call is in flight, some call can take its next step
SomeCallCanStep ==
    (tasks # EmptyMap /\ ~AllDone) => \E t \in DOMAIN tasks : ~Done(t) /\ Granted(t)

\* the same under a lock that lets no new reader in while a writer waits
GrantedWriterFirst(t) ==
    /\ Granted(t)
    /\ \A u \in DOMAIN tasks \ {t} :
          ~(/\ ~Granted(u)
            /\ Acquires(tasks[u]) = <<Acquires(tasks[t])[1], "w">>
            /\ Acquires(tasks[t])[2] = "r")

SomeCallCanStepWriterFirst ==
    (tasks # EmptyMap /\ ~AllDone) => \E t \in DOMAIN tasks : ~Done(t) /\ GrantedWriterFirst(t)

\* C40: no interleaving of concurrent add_peer, update_peer, remove_peer,
\* get_peers, get_stats, get_user_ip_count and cleanup_stale_peers calls
\* deadlocks: the guards are taken in the order swarm map, counter map,
\* user-IP index, no call holds a guard of a later map while it waits for a
\* guard of an earlier one, and every call eventually returns
C40_NoDeadlock ==
    /\ [](GuardsInOrder /\ SomeCallCanStep /\ SomeCallCanStepWriterFirst)
    /\ \A t \in TaskIds : (tasks # EmptyMap) ~> (tasks # EmptyMap /\ Done(t))

\* add_peer holds its three exclusive guards while update_peer, holding the
\* shared guard of nothing yet, and get_user_ip_count wait
C40_Witness ==
    \E t, u, v \in DOMAIN tasks :
        /\ tasks[t].op = "add_peer" /\ tasks[t].pc = "insert"
        /\ tasks[u].op = "update_peer" /\ ~Granted(u)
        /\ tasks[v].op = "get_user_ip_count" /\ ~Granted(v)

\* all three calls have returned after one had to wait for another's guard
C40_WitnessReturned ==
    /\ AllDone
    /\ \E t, u \in DOMAIN tasks :
          /\ tasks[t].op = "cleanup_stale_peers" /\ tasks[t].removed > 0
          /\ tasks[u].op = "add_peer" /\ tasks[u].ok

============================================================================
